---------------------------- MODULE Spec2Model ----------------------------
(***************************************************************************)
(* Verification model of the NexArt canonical renderer node:               *)
(*   - the canonical JSON serializers and the hash chain (attest.js),      *)
(*   - CodeMode bundle verification and the /api/attest handler,           *)
(*   - the static and loop render paths (server.js, render-loop.js).       *)
(*                                                                         *)
(* The repository carries two generations of the attestation module; both  *)
(* are modelled and the variable `build` says which one a behaviour runs:  *)
(*   "attest_js" : src/src/attest.js   (JSON.stringify with a key list)    *)
(*   "part_005"  : src/unnamed/part_005 (recursive canonicalize)           *)
(***************************************************************************)
EXTENDS Integers, Sequences, FiniteSets, TLC

VARIABLES
    build,      \* which generation of the attestation module is loaded
    x,          \* canon: the value handed to the serializer
    y,          \* canon: a second value, x with its keys listed in another order
    rx,         \* canon: result of serializing x ("none" before the call)
    ry,         \* canon: result of serializing y
    callerBundle, \* verify: the bundle the caller holds and submits
    issued,     \* verify: that bundle as it was issued, hashes freshly computed
    edits,      \* verify: how many changes the caller made since
    vres,       \* verify: what verifyBundle returned for callerBundle
    reqs,       \* attest: the /api/attest requests received so far, in arrival order
    ledger,     \* attest: the rows of table cer_proofs, in insertion order
    pendingProofs, \* attest: insertCerProof calls started and not yet settled
    usageEvents,   \* attest: usage_events rows with a 2xx status (what the quota counts)
    pendingUsage,  \* attest: logUsageEvent inserts of a 2xx status not yet settled
    ingest,     \* attest: the replication endpoint's configuration and the ingestCerBundle calls
    loopModule, \* render: which renderLoop is loaded (render-loop.js or part_013)
    calls,      \* render: the executeSnapshot / renderLoop calls made so far
    globalScope, \* render: the global object of the server process (its property n)
    tmp,        \* render: os.tmpdir(): the scratch directories and their files
    responses,  \* server: what each render request received so far came to
    rng,        \* runtime: one seeded generator: its seed, its state, its calls
    prep,       \* runtime: one snapshot and what an execution made of its seed and vars
    loopVerify, \* shell: one loop-mode POST /verify request and its response
    proc        \* shell: the server process, its connections, counters and drain timers

canonVars == <<x, y, rx, ry>>

verifyVars == <<callerBundle, issued, edits, vres>>

attestVars == <<reqs, ledger, pendingProofs, usageEvents, pendingUsage, ingest>>

renderVars == <<loopModule, calls, globalScope, tmp, responses>>

shellVars == <<loopVerify, proc>>

runtimeVars == <<rng, prep, shellVars>>

serverVars == <<attestVars, renderVars, runtimeVars>>

vars == <<build, canonVars, verifyVars, serverVars>>

Builds == {"attest_js", "part_005"}

(***************************************************************************)
(* Bounds of the model.                                                    *)
(***************************************************************************)
MaxNum == 1          \* number leaves are 0..MaxNum
MaxEdits == 2        \* changes a caller makes to an issued bundle
MaxRequests == 2     \* /api/attest requests in one behaviour
MonthlyLimit == 1    \* accounts.monthly_limit of the calling account
MaxCalls == 2        \* render calls in one behaviour
MaxFrames == 2       \* totalFrames of a loop render is 1..MaxFrames

(***************************************************************************)
(* JavaScript values.  Every value is a record of one shape:               *)
(*   t    : the type tag                                                   *)
(*   n    : the number (t = "num") or the truth value 0/1 (t = "bool")     *)
(*   s    : the text (t = "str") or the name of a non-finite number        *)
(*   kids : the entries <<[k, v], ...>> of an object in insertion order,   *)
(*          or the items of an array (k = "")                              *)
(***************************************************************************)
JVal(t, n, s, kids) == [t |-> t, n |-> n, s |-> s, kids |-> kids]

JNull == JVal("null", 0, "", <<>>)
JUndef == JVal("undefined", 0, "", <<>>)
JNum(n) == JVal("num", n, "", <<>>)
JNonFinite(name) == JVal("nonfinite", 0, name, <<>>)
JStr(s) == JVal("str", 0, s, <<>>)
JBool(b) == JVal("bool", IF b THEN 1 ELSE 0, "", <<>>)
JArr(items) == JVal("arr", 0, "", [i \in 1..Len(items) |-> [k |-> "", v |-> items[i]]])
JObj(entries) == JVal("obj", 0, "", entries)

\* Object.keys(value) for an object: the own keys in insertion order.
ObjectKeys(value) == [i \in 1..Len(value.kids) |-> value.kids[i].k]

HasKey(value, key) == \E i \in 1..Len(value.kids) : value.kids[i].k = key

\* value[key]: the property, or undefined when the object has no such key.
Get(value, key) ==
    IF value.t = "obj" /\ HasKey(value, key)
    THEN (CHOOSE e \in {value.kids[i] : i \in 1..Len(value.kids)} : e.k = key).v
    ELSE JUndef

(***************************************************************************)
(* Array.prototype.sort() with the default comparator orders strings by    *)
(* UTF-16 code units.  KeyUniverse lists, in that order, every key that    *)
(* occurs in the model.                                                    *)
(***************************************************************************)
KeyUniverse ==
    <<"a", "b", "bundleType", "certificateHash", "code", "createdAt",
      "inputHash", "outputHash", "seed", "snapshot", "vars", "version">>

InList(list, key) == \E i \in 1..Len(list) : list[i] = key

\* A serializer that forgets the sort: the keys stay in insertion order.
SortKeysOmitted(keys) == keys

\* keys.sort(): the same keys in code-unit order.
SortKeys(keys) == SelectSeq(KeyUniverse, LAMBDA k : InList(keys, k))

RECURSIVE Join(_)
\* parts.join(",")
Join(parts) ==
    IF Len(parts) = 0 THEN ""
    ELSE IF Len(parts) = 1 THEN parts[1]
    ELSE LET half == Len(parts) \div 2
         IN  Join(SubSeq(parts, 1, half)) \o "," \o Join(SubSeq(parts, half + 1, Len(parts)))

\* JSON.stringify of a string without characters that need escaping.
Quote(s) == "\"" \o s \o "\""

Thrown == [ok |-> FALSE, str |-> ""]
Returned(str) == [ok |-> TRUE, str |-> str]


(***************************************************************************)
(* part_005: canonicalize(value), the recursive canonical serializer.      *)
(* A thrown Error is the result Thrown.                                    *)
(***************************************************************************)
AnyThrown(results) == \E i \in 1..Len(results) : ~results[i].ok

Strs(results) == [i \in 1..Len(results) |-> results[i].str]

RECURSIVE canonicalize(_)
canonicalize(value) ==
    CASE value.t = "null" -> Returned("null")
      [] value.t = "bool" -> Returned(IF value.n = 1 THEN "true" ELSE "false")
      [] value.t = "num" -> Returned(ToString(value.n))
      [] value.t = "nonfinite" -> Thrown
      [] value.t = "str" -> Returned(Quote(value.s))
      [] value.t = "arr" ->
            LET items == [i \in 1..Len(value.kids) |-> canonicalize(value.kids[i].v)]
            IN  IF AnyThrown(items) THEN Thrown
                ELSE Returned("[" \o Join(Strs(items)) \o "]")
      [] value.t = "obj" ->
            LET keys == SortKeys(ObjectKeys(value))
                kept == SelectSeq(keys, LAMBDA k : Get(value, k).t # "undefined")
                vals == [i \in 1..Len(kept) |-> canonicalize(Get(value, kept[i]))]
            IN  IF AnyThrown(vals) THEN Thrown
                ELSE Returned("{" \o Join([i \in 1..Len(kept) |->
                                  Quote(kept[i]) \o ":" \o vals[i].str]) \o "}")
      [] OTHER -> Thrown

(***************************************************************************)
(* attest.js: canonicalJson(obj) = JSON.stringify(obj, Object.keys(obj)    *)
(* .sort()).  The second argument is a property list: JSON.stringify       *)
(* serializes, at EVERY depth, exactly the listed keys, in list order.     *)
(* Stringify is SerializeJSONProperty; def = FALSE stands for undefined.   *)
(***************************************************************************)
RECURSIVE Stringify(_, _)
Stringify(value, list) ==
    CASE value.t = "undefined" -> [def |-> FALSE, str |-> ""]
      [] value.t = "null" -> [def |-> TRUE, str |-> "null"]
      [] value.t = "bool" -> [def |-> TRUE, str |-> IF value.n = 1 THEN "true" ELSE "false"]
      [] value.t = "num" -> [def |-> TRUE, str |-> ToString(value.n)]
      [] value.t = "nonfinite" -> [def |-> TRUE, str |-> "null"]
      [] value.t = "str" -> [def |-> TRUE, str |-> Quote(value.s)]
      [] value.t = "arr" ->
            LET items == [i \in 1..Len(value.kids) |-> Stringify(value.kids[i].v, list)]
            IN  [def |-> TRUE,
                 str |-> "[" \o Join([i \in 1..Len(items) |->
                            IF items[i].def THEN items[i].str ELSE "null"]) \o "]"]
      [] OTHER ->
            LET kept == SelectSeq(list, LAMBDA k : Stringify(Get(value, k), list).def)
            IN  [def |-> TRUE,
                 str |-> "{" \o Join([i \in 1..Len(kept) |->
                            Quote(kept[i]) \o ":" \o Stringify(Get(value, kept[i]), list).str])
                         \o "}"]

\* Object.keys throws a TypeError on null and undefined.  The index keys of
\* an array or a string ("0", "1", ...) name no object key of the model.
canonicalJson(obj) ==
    IF obj.t \in {"null", "undefined"} THEN Thrown
    ELSE Returned(Stringify(obj,
             IF obj.t = "obj" THEN SortKeys(ObjectKeys(obj)) ELSE <<>>).str)

\* The serializer of the loaded build.
canon(b, value) == IF b = "attest_js" THEN canonicalJson(value) ELSE canonicalize(value)

(***************************************************************************)
(* The values the serializer is applied to: objects over the keys a, b,    *)
(* nested two deep, with number, non-finite, string and array members.     *)
(***************************************************************************)
Leaves ==
    {JNum(n) : n \in 0..MaxNum} \cup {JNonFinite("NaN"), JNonFinite("Infinity"), JStr("s")}

ObjectsOver(members) ==
    {JObj(<<>>)}
    \cup {JObj(<<[k |-> k, v |-> v]>>) : k \in {"a", "b"}, v \in members}
    \cup {JObj(<<[k |-> "a", v |-> v], [k |-> "b", v |-> w]>>) : v \in members, w \in members}
    \cup {JObj(<<[k |-> "b", v |-> w], [k |-> "a", v |-> v]>>) : v \in members, w \in members}

Inner == ObjectsOver({JNum(0), JNonFinite("NaN")})

Arrays ==
    {JArr(<<JNum(0)>>), JArr(<<JNonFinite("-Infinity")>>), JArr(<<JNum(1), JNum(0)>>)}
    \cup {JArr(<<v>>) : v \in {o \in Inner : Len(o.kids) = 2 /\ o.kids[1].v = JNum(0)}}

Values == ObjectsOver(Leaves \cup Inner \cup Arrays)

RECURSIVE StructEq(_, _)
\* Structural equality: the same members under the same keys, whatever the
\* order the keys are listed in; array items in the same order.
StructEq(u, v) ==
    /\ u.t = v.t
    /\ u.n = v.n
    /\ u.s = v.s
    /\ Len(u.kids) = Len(v.kids)
    /\ IF u.t = "obj"
       THEN \A i \in 1..Len(u.kids) :
                /\ HasKey(v, u.kids[i].k)
                /\ StructEq(u.kids[i].v, Get(v, u.kids[i].k))
       ELSE \A i \in 1..Len(u.kids) : StructEq(u.kids[i].v, v.kids[i].v)

RECURSIVE ContainsNonFinite(_)
ContainsNonFinite(v) ==
    \/ v.t = "nonfinite"
    \/ \E i \in 1..Len(v.kids) : ContainsNonFinite(v.kids[i].v)

RECURSIVE Reorderings(_)
\* Every listing of v's keys, at every depth.
Reorderings(v) ==
    IF Len(v.kids) = 0 THEN {v}
    ELSE LET n == Len(v.kids)
             each == [i \in 1..n |-> Reorderings(v.kids[i].v)]
             picks == {c \in [1..n -> UNION {each[i] : i \in 1..n}] :
                          \A i \in 1..n : c[i] \in each[i]}
             orders == IF v.t = "obj" THEN Permutations(1..n) ELSE {[i \in 1..n |-> i]}
         IN  {JVal(v.t, v.n, v.s, [i \in 1..n |-> [k |-> v.kids[p[i]].k, v |-> c[p[i]]]]) :
                 p \in orders, c \in picks}

(***************************************************************************)
(* Canon: the serializer applied to a value and to a reordering of it.     *)
(***************************************************************************)
None == [ok |-> FALSE, str |-> "none"]

VerifyIdle ==
    /\ callerBundle = JNull
    /\ issued = JNull
    /\ edits = 0
    /\ vres = JNull

AttestIdle ==
    /\ reqs = <<>>
    /\ ledger = <<>>
    /\ pendingProofs = {}
    /\ usageEvents = 0
    /\ pendingUsage = 0
    /\ ingest = [configured |-> FALSE, calls |-> {}]

EmptyTmp == [dirs |-> {}, files |-> {}]

RenderIdle ==
    /\ loopModule = "render_loop_js"
    /\ calls = <<>>
    /\ globalScope = 0
    /\ tmp = EmptyTmp
    /\ responses = <<>>

\* 32-bit values are kept as two 16-bit halves, and the integers a double
\* holds as four, lowest first.
U32(hi, lo) == [hi |-> hi, lo |-> lo]

RngIdle ==
    rng = [seed |-> U32(0, 0), a |-> <<0, 0, 0, 0>>, k |-> 0, made |-> 0,
           value |-> U32(0, 0)]

PrepIdle == prep = [server |-> "", route |-> "", seed |-> JUndef, vars |-> JUndef,
                    done |-> FALSE, numericSeed |-> U32(0, 0), VAR |-> <<>>]

LoopVerifyIdle == loopVerify = [pc |-> "idle"]

ProcIdle == proc = [exited |-> FALSE]

ShellIdle == LoopVerifyIdle /\ ProcIdle

RuntimeIdle == RngIdle /\ PrepIdle /\ ShellIdle

ServerIdle == AttestIdle /\ RenderIdle /\ RuntimeIdle

CanonInit ==
    /\ build \in Builds
    /\ VerifyIdle
    /\ ServerIdle
    /\ x \in Values
    /\ y = x
    /\ rx = None
    /\ ry = None

\* The caller builds the same value with its keys in another order.
ReorderKeys ==
    /\ rx = None /\ ry = None
    /\ y' \in Reorderings(x) \ {y}
    /\ UNCHANGED <<build, x, rx, ry, verifyVars, serverVars>>

CanonicalizeX ==
    /\ rx = None
    /\ rx' = canon(build, x)
    /\ UNCHANGED <<build, x, y, ry, verifyVars, serverVars>>

CanonicalizeY ==
    /\ ry = None
    /\ ry' = canon(build, y)
    /\ UNCHANGED <<build, x, y, rx, verifyVars, serverVars>>

CanonNext == ReorderKeys \/ CanonicalizeX \/ CanonicalizeY

SpecCanon == CanonInit /\ [][CanonNext]_vars

\* C4: structurally equal values whose keys are listed in a different order,
\* at any depth, canonicalize to the identical string (or both are rejected).
C4_OrderIndependent ==
    (rx # None /\ ry # None /\ StructEq(x, y)) => rx = ry

\* C4 witness: two different listings of a nested object were both serialized
\* to a string, and the listings differ below the top level.
C4_Witness ==
    /\ rx # None /\ ry # None /\ rx.ok /\ ry.ok
    /\ x # y
    /\ Len(x.kids) = 2
    /\ \E i \in 1..2 : x.kids[i].v.t = "obj" /\ Get(y, x.kids[i].k) # x.kids[i].v

\* C5: canon raises an error for every value holding a non-finite number at
\* any depth; it never returns a string for such a value.
C5_RejectsNonFinite ==
    (rx # None /\ ContainsNonFinite(x)) => ~rx.ok


(***************************************************************************)
(* The hash chain.  SHA-256 is modelled as collision free: the digest of   *)
(* data is the text "<data>", which stands for its 64 hexadecimal digits.  *)
(* "<aaaa>" is the digest-shaped text of the tests ('a'.repeat(64)), and   *)
(* FlipChar changes one digit of a digest.                                 *)
(***************************************************************************)
HexDigest(data) == "<" \o data \o ">"

\* /^[a-f0-9]{64}$/
IsHex64(s) ==
    /\ Len(s) >= 2
    /\ SubSeq(s, 1, 1) = "<"
    /\ SubSeq(s, Len(s), Len(s)) = ">"

FlipChar(hash) == SubSeq(hash, 1, Len(hash) - 1) \o "~>"

\* attest.js:7-9 returns the bare digest, part_005:167-169 prefixes "sha256:".
sha256(b, data) ==
    IF b = "attest_js" THEN HexDigest(data) ELSE "sha256:" \o HexDigest(data)

\* A format check that demands the "sha256:" prefix in every build.
isValidSha256PrefixedOnly(b, hash) ==
    /\ hash.t = "str"
    /\ Len(hash.s) > 7
    /\ SubSeq(hash.s, 1, 7) = "sha256:"
    /\ IsHex64(SubSeq(hash.s, 8, Len(hash.s)))

\* attest.js:69-71 (SHA256_HEX_RE), part_005:187-189 (SHA256_NORMALIZED_RE)
isValidSha256(b, hash) ==
    /\ hash.t = "str"
    /\ IF b = "attest_js"
       THEN IsHex64(hash.s)
       ELSE /\ Len(hash.s) > 7
            /\ SubSeq(hash.s, 1, 7) = "sha256:"
            /\ IsHex64(SubSeq(hash.s, 8, Len(hash.s)))

Entry(k, v) == [k |-> k, v |-> v]

\* A result of a hash function: the hash text, or a thrown serializer error.
HashOf(b, payload) == IF payload.ok THEN Returned(sha256(b, payload.str)) ELSE Thrown

\* computeCertificateHash({ bundleType, version, createdAt, snapshot })
computeCertificateHash(b, bundleType, version, createdAt, snapshot) ==
    HashOf(b, canon(b, JObj(<<Entry("bundleType", bundleType), Entry("createdAt", createdAt),
                              Entry("snapshot", snapshot), Entry("version", version)>>)))

\* computeInputHash(snapshot) / computeCodeModeInputHash(snapshot)
computeInputHash(b, snapshot) ==
    HashOf(b, canon(b, JObj(<<Entry("code", Get(snapshot, "code")),
                              Entry("seed", Get(snapshot, "seed")),
                              Entry("vars", Get(snapshot, "vars"))>>)))

(***************************************************************************)
(* verifyBundle / verifyCodeModeBundle                                     *)
(***************************************************************************)
\* JavaScript truthiness of a value.
Truthy(v) ==
    CASE v.t \in {"undefined", "null"} -> FALSE
      [] v.t = "bool" -> v.n = 1
      [] v.t = "num" -> v.n # 0
      [] v.t = "nonfinite" -> v.s # "NaN"
      [] v.t = "str" -> v.s # ""
      [] OTHER -> TRUE

\* typeof v === "object" (null is excluded by the truthiness test before it)
TypeofObject(v) == v.t \in {"obj", "arr", "null"}

\* !v || typeof v !== "string"
NotAString(v) == ~Truthy(v) \/ v.t # "str"

CondSeq(cond, item) == IF cond THEN <<item>> ELSE <<>>

\* The validation errors in the order the code pushes them (lines 82-121).
ValidationErrors(b, bundle) ==
    LET snapshot == Get(bundle, "snapshot")
        head == CondSeq(NotAString(Get(bundle, "bundleType")), "bundleType")
                \o CondSeq(NotAString(Get(bundle, "version")), "version")
                \o CondSeq(NotAString(Get(bundle, "createdAt")), "createdAt")
    IN  IF ~Truthy(snapshot) \/ ~TypeofObject(snapshot)
        THEN head \o <<"snapshot">>
        ELSE head
             \o CondSeq(NotAString(Get(snapshot, "code")), "snapshot.code")
             \o CondSeq(Get(snapshot, "seed").t \in {"undefined", "null"}, "snapshot.seed")
             \o CondSeq(Get(snapshot, "vars").t # "arr", "snapshot.vars")
             \o CondSeq(Get(bundle, "certificateHash").t # "undefined"
                        /\ ~isValidSha256(b, Get(bundle, "certificateHash")), "certificateHash")
             \o CondSeq(Get(bundle, "inputHash").t # "undefined"
                        /\ ~isValidSha256(b, Get(bundle, "inputHash")), "inputHash")
             \o CondSeq(Get(bundle, "outputHash").t # "undefined"
                        /\ ~isValidSha256(b, Get(bundle, "outputHash")), "outputHash")

Mismatch(field, expected, computed) ==
    [field |-> field, expected |-> expected, computed |-> computed]

\* A comparison that stops at the first field that differs.
MismatchesFirstOnly(supIn, reIn, supCert, reCert) ==
    IF Truthy(supIn) /\ supIn.s # reIn
    THEN <<Mismatch("inputHash", supIn.s, reIn)>>
    ELSE CondSeq(Truthy(supCert) /\ supCert.s # reCert,
                 Mismatch("certificateHash", supCert.s, reCert))

\* Lines 127-149: both supplied hashes are compared with the recomputed ones.
Mismatches(supIn, reIn, supCert, reCert) ==
    CondSeq(Truthy(supIn) /\ supIn.s # reIn, Mismatch("inputHash", supIn.s, reIn))
    \o CondSeq(Truthy(supCert) /\ supCert.s # reCert,
               Mismatch("certificateHash", supCert.s, reCert))

VResult(kind, errors, mismatches, certificateHash, inputHash) ==
    [kind |-> kind, errors |-> errors, mismatches |-> mismatches,
     certificateHash |-> certificateHash, inputHash |-> inputHash]

NoResult == VResult("none", <<>>, <<>>, "", "")

\* kind: "invalid" ({valid:false, errors}), "mismatch" ({valid:false, errors:
\* ["Hash mismatch"], mismatches}), "valid", or "throw" (an exception leaves).
verifyBundle(b, bundle) ==
    IF ~Truthy(bundle) \/ ~TypeofObject(bundle)
    THEN VResult("invalid", <<"bundle">>, <<>>, "", "")
    ELSE
    LET errors == ValidationErrors(b, bundle)
        snapshot == Get(bundle, "snapshot")
        certificateHash == Get(bundle, "certificateHash")
        inputHash == Get(bundle, "inputHash")
        reIn == computeInputHash(b, snapshot)
        reCert == computeCertificateHash(b, Get(bundle, "bundleType"), Get(bundle, "version"),
                                         Get(bundle, "createdAt"), snapshot)
        mismatches == Mismatches(inputHash, reIn.str, certificateHash, reCert.str)
    IN  IF Len(errors) > 0 THEN VResult("invalid", errors, <<>>, "", "")
        ELSE IF ~reIn.ok \/ ~reCert.ok THEN VResult("throw", <<>>, <<>>, "", "")
        ELSE IF Len(mismatches) > 0
             THEN VResult("mismatch", <<"Hash mismatch">>, mismatches, "", "")
        ELSE VResult("valid", <<>>, <<>>,
                     IF Truthy(certificateHash) THEN certificateHash.s ELSE reCert.str,
                     IF Truthy(inputHash) THEN inputHash.s ELSE reIn.str)


(***************************************************************************)
(* Verify: a caller issues a CodeMode bundle with the node's own hash      *)
(* functions, possibly changes it, and hands it to verifyBundle.           *)
(***************************************************************************)
CanonIdle ==
    /\ x = JNull
    /\ y = JNull
    /\ rx = None
    /\ ry = None

IssuedSnapshots ==
    {JObj(<<Entry("code", JStr("A")), Entry("seed", sd), Entry("vars", JArr(<<JNum(MaxNum)>>))>>) :
        sd \in {JNum(1), JStr("s")}}
    \cup {JObj(<<Entry("vars", JArr(<<>>)), Entry("seed", JNum(1)), Entry("code", JStr("A"))>>)}

\* makeValidCodeModeBundle of the tests: the hashes come from the build's own
\* computeInputHash and computeCertificateHash.
IssueBundle(b, snapshot) ==
    JObj(<<Entry("bundleType", JStr("cer.codemode.v1")),
           Entry("version", JStr("1.0.0")),
           Entry("createdAt", JStr("2025-01-01")),
           Entry("snapshot", snapshot),
           Entry("inputHash", JStr(computeInputHash(b, snapshot).str)),
           Entry("certificateHash",
                 JStr(computeCertificateHash(b, JStr("cer.codemode.v1"), JStr("1.0.0"),
                                             JStr("2025-01-01"), snapshot).str))>>)

\* obj with obj[key] = v; v = undefined deletes the key.
With(obj, key, v) ==
    LET rest == SelectSeq(obj.kids, LAMBDA e : e.k # key)
    IN  IF v.t = "undefined" THEN JObj(rest)
        ELSE IF HasKey(obj, key)
             THEN JObj([i \in 1..Len(obj.kids) |->
                          IF obj.kids[i].k = key THEN Entry(key, v) ELSE obj.kids[i]])
             ELSE JObj(Append(obj.kids, Entry(key, v)))

HashFields == {"inputHash", "certificateHash"}

VerifyInit ==
    /\ build \in Builds
    /\ CanonIdle
    /\ ServerIdle
    /\ \E snapshot \in IssuedSnapshots : issued = IssueBundle(build, snapshot)
    /\ callerBundle = issued
    /\ edits = 0
    /\ vres = NoResult

CanEdit == vres = NoResult /\ edits < MaxEdits

Edited(next) ==
    /\ next # callerBundle
    /\ callerBundle' = next
    /\ edits' = edits + 1
    /\ UNCHANGED <<build, canonVars, serverVars, issued, vres>>

\* One character of a supplied hash is changed.
FlipHash ==
    /\ CanEdit
    /\ \E f \in HashFields :
          /\ Get(callerBundle, f).t = "str"
          /\ Len(Get(callerBundle, f).s) >= 2
          /\ Edited(With(callerBundle, f, JStr(FlipChar(Get(callerBundle, f).s))))

\* A field of the bundle is left out, or given a value of the wrong form.
BreakField ==
    /\ CanEdit
    /\ \E e \in { Entry(f, JUndef) : f \in {"bundleType", "version", "createdAt", "snapshot",
                                            "inputHash", "certificateHash"} }
            \cup { Entry("bundleType", JNum(1)), Entry("version", JStr("")),
                   Entry("createdAt", JNull), Entry("snapshot", JNull),
                   Entry("certificateHash", JStr("not-a-valid-hash")),
                   Entry("inputHash", JStr("not-a-valid-hash")),
                   Entry("outputHash", JStr("not-a-valid-hash")),
                   Entry("outputHash", JStr(sha256(build, "out"))),
                   Entry("certificateHash", JStr(sha256(build, "aaaa"))) } :
          Edited(With(callerBundle, e.k, e.v))

\* The snapshot is changed after the hashes were issued.
EditSnapshot ==
    /\ CanEdit
    /\ Get(callerBundle, "snapshot").t = "obj"
    /\ \E e \in { Entry(f, JUndef) : f \in {"code", "seed", "vars"} }
            \cup { Entry("code", JNum(1)), Entry("seed", JNull), Entry("vars", JStr("x")),
                   Entry("code", JStr("B")), Entry("seed", JNum(2)),
                   Entry("vars", JArr(<<JNum(0)>>)), Entry("a", JNum(1)),
                   Entry("vars", JArr(<<JNonFinite("NaN")>>)) } :
          Edited(With(callerBundle, "snapshot", With(Get(callerBundle, "snapshot"), e.k, e.v)))

VerifyBundle ==
    /\ vres = NoResult
    /\ vres' = verifyBundle(build, callerBundle)
    /\ UNCHANGED <<build, canonVars, serverVars, callerBundle, issued, edits>>

VerifyNext == FlipHash \/ BreakField \/ EditSnapshot \/ VerifyBundle

SpecVerify == VerifyInit /\ [][VerifyNext]_vars


\* The bundle's required fields in the form the bundle schema asks for.
RequiredFieldsValid(bdl) ==
    /\ bdl.t = "obj"
    /\ \A f \in {"bundleType", "version", "createdAt"} :
          Get(bdl, f).t = "str" /\ Get(bdl, f).s # ""
    /\ Get(bdl, "snapshot").t = "obj"
    /\ Get(Get(bdl, "snapshot"), "code").t = "str"
    /\ Get(Get(bdl, "snapshot"), "code").s # ""
    /\ Get(Get(bdl, "snapshot"), "seed").t \notin {"undefined", "null"}
    /\ Get(Get(bdl, "snapshot"), "vars").t = "arr"
    /\ Get(bdl, "outputHash").t # "undefined" => isValidSha256(build, Get(bdl, "outputHash"))

\* The hash the build's own function computes for field f of bdl.
Recomputed(bdl, f) ==
    IF f = "inputHash" THEN computeInputHash(build, Get(bdl, "snapshot"))
    ELSE computeCertificateHash(build, Get(bdl, "bundleType"), Get(bdl, "version"),
                                Get(bdl, "createdAt"), Get(bdl, "snapshot"))

Hashable(bdl) == \A f \in HashFields : Recomputed(bdl, f).ok

Differing(bdl) ==
    {f \in HashFields : Get(bdl, f).t = "str" /\ Get(bdl, f).s # Recomputed(bdl, f).str}

StructurallyValid(bdl) ==
    /\ RequiredFieldsValid(bdl)
    /\ Hashable(bdl)
    /\ \A f \in HashFields : Get(bdl, f).t # "undefined" => isValidSha256(build, Get(bdl, f))

\* C2: for a structurally valid bundle with a supplied hash that differs from
\* the recomputed one, verifyBundle returns valid:false and mismatches holds
\* exactly one {field, expected, computed} entry per differing field.
C2_EveryMismatchReported ==
    (vres # NoResult /\ StructurallyValid(callerBundle) /\ Differing(callerBundle) # {})
    => /\ vres.kind = "mismatch"
       /\ Len(vres.mismatches) = Cardinality(Differing(callerBundle))
       /\ {vres.mismatches[i] : i \in 1..Len(vres.mismatches)}
          = {Mismatch(f, Get(callerBundle, f).s, Recomputed(callerBundle, f).str) :
                f \in Differing(callerBundle)}

\* C2 witness: both hashes had a character flipped and both are reported.
C2_Witness ==
    /\ vres # NoResult
    /\ StructurallyValid(callerBundle)
    /\ Differing(callerBundle) = HashFields
    /\ \A f \in HashFields : Get(callerBundle, f).s = FlipChar(Get(issued, f).s)

\* C3: the certificate hash binds the whole snapshot: a bundle that keeps the
\* bundleType, version, createdAt and certificateHash it was issued with but
\* whose snapshot was changed recomputes to another certificate hash and is
\* not accepted as valid.
C3_SnapshotBound ==
    (/\ vres # NoResult
     /\ Hashable(callerBundle)
     /\ \A f \in {"bundleType", "version", "createdAt", "certificateHash"} :
           Get(callerBundle, f) = Get(issued, f)
     /\ Get(callerBundle, "snapshot").t = "obj"
     /\ ~StructEq(Get(callerBundle, "snapshot"), Get(issued, "snapshot")))
    => /\ Recomputed(callerBundle, "certificateHash") # Recomputed(issued, "certificateHash")
       /\ vres.kind # "valid"

(***************************************************************************)
(* Attest: POST /api/attest and the proof ledger.  A request is handled in *)
(* the steps its awaits cut it into; inserts the handler does not await    *)
(* settle later, in any order.  Usage rows with a non-2xx status are not   *)
(* kept: nothing reads them.                                               *)
(***************************************************************************)
AiBundleType == "cer.ai.execution.v1"

Bodies == {"fresh", "noHashes", "tampered", "ai"}

FreshSnapshot ==
    JObj(<<Entry("code", JStr("A")), Entry("seed", JNum(1)), Entry("vars", JArr(<<>>))>>)

\* The request bodies callers send, by name.
Body(b, name) ==
    LET fresh == IssueBundle(b, FreshSnapshot)
    IN  CASE name = "fresh" -> fresh
          [] name = "noHashes" ->
                With(With(fresh, "inputHash", JUndef), "certificateHash", JUndef)
          [] name = "tampered" -> With(fresh, "certificateHash", JStr(sha256(b, "aaaa")))
          [] OTHER ->
                JObj(<<Entry("bundleType", JStr(AiBundleType)),
                       Entry("snapshot", JObj(<<>>)),
                       Entry("certificateHash", JStr(sha256(b, "ai")))>>)

isAiCer(bundle) == Get(bundle, "bundleType") = JStr(AiBundleType)

\* A handler that never looks at the header.
isNegotiationProbeUnread(b, header) == FALSE

\* Only the later server reads the X-Nexart-Negotiation header.
isNegotiationProbe(b, header) == b = "part_005" /\ header

\* Only the later server keeps a proof ledger.
HasLedger(b) == b = "part_005"

Request(body, header, aiOk) ==
    [pc |-> "quota", body |-> body, header |-> header, aiOk |-> aiOk,
     status |-> 0, verified |-> FALSE, certificateHash |-> ""]

Responded(r, status, verified, certificateHash) ==
    [r EXCEPT !.pc = "done", !.status = status, !.verified = verified,
              !.certificateHash = certificateHash]

\* The row the handler hands to insertCerProof; attestationId is the
\* request's own requestId.
ProofRow(i, bundleType, certificateHash) ==
    [bundleType |-> bundleType, certificateHash |-> certificateHash,
     attestationId |-> i, status |-> "ATTESTED"]

UniqueCertificateHashDropped(rows, row) == TRUE

\* The UNIQUE constraint on cer_proofs.certificate_hash.
UniqueCertificateHash(rows, row) ==
    \A i \in 1..Len(rows) : rows[i].certificateHash # row.certificateHash

\* INSERT INTO cer_proofs: the row is added unless a constraint rejects it.
insertCerProof(rows, row) ==
    IF UniqueCertificateHash(rows, row) THEN Append(rows, row) ELSE rows

AttestInit ==
    /\ build \in Builds
    /\ CanonIdle
    /\ VerifyIdle
    /\ reqs = <<>>
    /\ ledger = <<>>
    /\ pendingProofs = {}
    /\ usageEvents = 0
    /\ pendingUsage = 0
    /\ \E configured \in BOOLEAN : ingest = [configured |-> configured, calls |-> {}]
    /\ RuntimeIdle
    /\ RenderIdle

AttestFrame == UNCHANGED <<build, canonVars, verifyVars, renderVars, runtimeVars>>

\* A request arrives and starts its quota query.
Receive ==
    /\ Len(reqs) < MaxRequests
    /\ \E body \in Bodies, header \in BOOLEAN, aiOk \in BOOLEAN :
          /\ (header => build = "part_005")
          /\ (~aiOk => body = "ai")
          /\ reqs' = Append(reqs, Request(body, header, aiOk))
    /\ AttestFrame
    /\ UNCHANGED <<ledger, pendingProofs, usageEvents, pendingUsage, ingest>>

\* A quota that lets the request through that reaches the limit.
getAccountQuotaStrict(used, limit) ==
    [limit |-> limit, used |-> used,
     remaining |-> IF limit > used THEN limit - used ELSE 0,
     exceeded |-> used > limit]

\* getAccountQuota with enforcement on: the limit of the account, the 2xx
\* usage events of the month, and exceeded: used >= monthlyLimit.
getAccountQuota(used, limit) ==
    [limit |-> limit, used |-> used,
     remaining |-> IF limit > used THEN limit - used ELSE 0,
     exceeded |-> used >= limit]

\* getAccountQuota resolves; an exceeded quota ends the request with 429.
GetAccountQuota ==
    /\ \E i \in 1..Len(reqs) :
          /\ reqs[i].pc = "quota"
          /\ reqs' = [reqs EXCEPT ![i] =
                        IF getAccountQuota(usageEvents, MonthlyLimit).exceeded
                        THEN Responded(@, 429, FALSE, "")
                        ELSE [@ EXCEPT !.pc = "body"]]
    /\ AttestFrame
    /\ UNCHANGED <<ledger, pendingProofs, usageEvents, pendingUsage, ingest>>

\* The handler from the bundle validation to its response, or to the await
\* of logUsageEvent on the AI path of the later server.
HandleBundle ==
    /\ \E i \in 1..Len(reqs) :
          LET r == reqs[i]
              bundle == Body(build, r.body)
              probe == isNegotiationProbe(build, r.header)
              verification == verifyBundle(build, bundle)
              aiHash == Get(bundle, "certificateHash").s
          IN  /\ r.pc = "body"
              /\ IF isAiCer(bundle)
                 THEN IF ~r.aiOk
                      THEN /\ reqs' = [reqs EXCEPT ![i] = Responded(@, 400, FALSE, "")]
                           /\ UNCHANGED <<pendingProofs, pendingUsage>>
                      ELSE IF probe
                      THEN /\ reqs' = [reqs EXCEPT ![i] = Responded(@, 200, TRUE, aiHash)]
                           /\ UNCHANGED <<pendingProofs, pendingUsage>>
                      ELSE IF HasLedger(build)
                      THEN /\ reqs' = [reqs EXCEPT ![i].pc = "aiLog"]
                           /\ UNCHANGED <<pendingProofs, pendingUsage>>
                      ELSE /\ reqs' = [reqs EXCEPT ![i] = Responded(@, 200, TRUE, aiHash)]
                           /\ pendingUsage' = pendingUsage + 1
                           /\ UNCHANGED pendingProofs
                 ELSE IF verification.kind = "throw"
                      THEN /\ reqs' = [reqs EXCEPT ![i] = Responded(@, 500, FALSE, "")]
                           /\ UNCHANGED <<pendingProofs, pendingUsage>>
                      ELSE IF verification.kind # "valid"
                      THEN /\ reqs' = [reqs EXCEPT ![i] = Responded(@, 400, FALSE, "")]
                           /\ UNCHANGED <<pendingProofs, pendingUsage>>
                      ELSE /\ reqs' = [reqs EXCEPT ![i] =
                                         Responded(@, 200, TRUE, verification.certificateHash)]
                           /\ pendingUsage' = IF probe THEN pendingUsage ELSE pendingUsage + 1
                           /\ pendingProofs' =
                                 IF probe \/ ~HasLedger(build) THEN pendingProofs
                                 ELSE pendingProofs \cup
                                      {ProofRow(i, Get(bundle, "bundleType").s,
                                                verification.certificateHash)}
    /\ AttestFrame
    /\ UNCHANGED <<ledger, usageEvents, ingest>>

\* What the replication endpoint does with a request.
Replies == {"ok", "notOk", "networkError", "timeout"}

\* An ingestCerBundle whose fetch is outside any try block.
ingestCerBundleUncaught(configured, reply) ==
    IF ~configured THEN [fetched |-> FALSE, state |-> "resolved"]
    ELSE [fetched |-> TRUE,
          state |-> IF reply \in {"networkError", "timeout"} THEN "rejected" ELSE "resolved"]

\* ingestCerBundle: without SUPABASE_URL or CER_INGEST_SECRET it warns and
\* returns; otherwise it posts the payload, and whatever fetch does (a
\* reply, ok or not, a network error, the 10 s abort) ends in a log line.
ingestCerBundle(configured, reply) ==
    IF ~configured THEN [fetched |-> FALSE, state |-> "resolved"]
    ELSE [fetched |-> TRUE, state |-> "resolved"]

\* An ingestCerBundle call of request i.
IngestCall(i, fetched, state) == [attestationId |-> i, fetched |-> fetched, state |-> state]

\* AI path of the later server: the awaited logUsageEvent has settled (the
\* row was written and its id came back, or the insert failed and false
\* came back); with an id the handler starts ingestCerBundle; it starts
\* insertCerProof and responds.
AiLogged ==
    /\ \E i \in 1..Len(reqs), written \in BOOLEAN :
          LET bundle == Body(build, reqs[i].body)
              h == Get(bundle, "certificateHash").s
          IN  /\ reqs[i].pc = "aiLog"
              /\ usageEvents' = IF written THEN usageEvents + 1 ELSE usageEvents
              /\ pendingProofs' = pendingProofs \cup {ProofRow(i, AiBundleType, h)}
              /\ ingest' = IF written
                            THEN [ingest EXCEPT !.calls = @ \cup {IngestCall(i, FALSE, "pending")}]
                            ELSE ingest
              /\ reqs' = [reqs EXCEPT ![i] = Responded(@, 200, TRUE, h)]
    /\ AttestFrame
    /\ UNCHANGED <<ledger, pendingUsage>>

\* An ingestCerBundle call settles, with whatever the endpoint replied.
IngestSettles ==
    /\ \E call \in ingest.calls, reply \in Replies :
          LET done == ingestCerBundle(ingest.configured, reply)
          IN  /\ call.state = "pending"
              /\ ingest' = [ingest EXCEPT !.calls =
                               (@ \ {call}) \cup
                               {IngestCall(call.attestationId, done.fetched, done.state)}]
    /\ AttestFrame
    /\ UNCHANGED <<reqs, ledger, pendingProofs, usageEvents, pendingUsage>>

\* A logUsageEvent insert nobody awaits settles: row written, or error logged.
UsageInsertSettles ==
    /\ pendingUsage > 0
    /\ pendingUsage' = pendingUsage - 1
    /\ \E written \in BOOLEAN :
          usageEvents' = IF written THEN usageEvents + 1 ELSE usageEvents
    /\ AttestFrame
    /\ UNCHANGED <<reqs, ledger, pendingProofs, ingest>>

\* An insertCerProof call settles: the INSERT ran against the table, or the
\* database was not reachable and the rejection went to the .catch handler.
ProofInsertSettles ==
    /\ \E row \in pendingProofs, reachable \in BOOLEAN :
          /\ pendingProofs' = pendingProofs \ {row}
          /\ ledger' = IF reachable THEN insertCerProof(ledger, row) ELSE ledger
    /\ AttestFrame
    /\ UNCHANGED <<reqs, usageEvents, pendingUsage, ingest>>

AttestNext ==
    \/ Receive
    \/ GetAccountQuota
    \/ HandleBundle
    \/ AiLogged
    \/ UsageInsertSettles
    \/ ProofInsertSettles
    \/ IngestSettles

SpecAttest == AttestInit /\ [][AttestNext]_vars

\* C7: for every certificateHash h, whatever successful /api/attest requests
\* for h were handled, one after another or overlapping, the ledger holds at
\* most one record keyed by h.
C7_OneRecordPerHash ==
    \A i, j \in 1..Len(ledger) :
        ledger[i].certificateHash = ledger[j].certificateHash => i = j

\* C7 witness: two non-probe requests for the same certificateHash both got
\* 200, both inserts have settled, and the ledger holds a record for it.
C7_Witness ==
    /\ pendingProofs = {}
    /\ \E i, j \in 1..Len(reqs) :
          /\ i # j
          /\ reqs[i].status = 200 /\ reqs[j].status = 200
          /\ ~reqs[i].header /\ ~reqs[j].header
          /\ reqs[i].certificateHash = reqs[j].certificateHash
          /\ \E k \in 1..Len(ledger) :
                /\ ledger[k].certificateHash = reqs[i].certificateHash
                /\ ledger[k].attestationId = j

\* C8: an attestation with verified:true is returned only for a CodeMode
\* bundle that supplied inputHash and certificateHash and whose supplied
\* values equal the hashes recomputed from its snapshot; a bundle for which
\* a comparison failed or did not take place gets no attestation.
C8_VerifiedOnlyAfterBothComparisons ==
    \A i \in 1..Len(reqs) :
        LET bundle == Body(build, reqs[i].body)
        IN  (reqs[i].verified /\ ~isAiCer(bundle))
            => \A f \in HashFields :
                  /\ Get(bundle, f).t = "str"
                  /\ Get(bundle, f).s = Recomputed(bundle, f).str

(***************************************************************************)
(* Render: artist code is a sequence of tokens.                            *)
(*   "setup{" "draw{" "helper{" : `function NAME() {`                      *)
(*   "{" "}"                    : a block opens, a block or function ends  *)
(*   "a"  : a drawing call of the runtime, e.g. rect(0, 0, 10, 10)         *)
(*   "g"  : n = (typeof n === "undefined" ? 0 : n) + 1; background(n)      *)
(*   "x"  : throw new Error()                                              *)
(*   "c"  : createCanvas(800, 600)                                         *)
(*   "w"  : while (true) {}                                                *)
(* Whitespace is not a token, so \s* and trim() have nothing to do.  The   *)
(* canvas is the text of the drawing calls made on it; PNG and MP4 bytes   *)
(* are that text.                                                          *)
(***************************************************************************)
FunctionTokens == {"setup{", "draw{", "helper{"}

Openers == FunctionTokens \cup {"{"}

Programs ==
    { <<"setup{", "a", "}", "draw{", "a", "}">>,
      <<"setup{", "a", "}", "draw{", "a", "}", "a">>,
      <<"draw{", "a", "}">>,
      <<"setup{", "a", "}">>,
      <<"setup{", "x", "}", "draw{", "a", "}">>,
      <<"setup{", "a", "}", "draw{", "a", "x", "}">>,
      <<"setup{", "a", "}", "draw{", "g", "}">>,
      <<"setup{", "}", "draw{", "a", "}">>,
      <<"setup{", "{", "a", "}", "helper{", "a", "}", "}", "draw{", "a", "}">> }

Min(S) == CHOOSE m \in S : \A n \in S : m <= n

NoMatch == [matched |-> FALSE, body |-> <<>>]

\* The lookahead (?=\s*function|\s*$) holds after the "}" at position j.
ClosesFunction(code, j) ==
    code[j] = "}" /\ (j = Len(code) \/ code[j + 1] \in FunctionTokens)

\* code.match(/function\s+NAME\s*\(\s*\)\s*\{([\s\S]*?)\}(?=\s*function|\s*$)/):
\* the leftmost header that can be completed, then the nearest "}" the
\* lookahead accepts; group 1 is what lies between.
MatchFunction(code, header) ==
    LET starts == {i \in 1..Len(code) :
                      /\ code[i] = header
                      /\ \E j \in (i + 1)..Len(code) : ClosesFunction(code, j)}
    IN  IF starts = {} THEN NoMatch
        ELSE LET i == Min(starts)
                 j == Min({k \in (i + 1)..Len(code) : ClosesFunction(code, k)})
             IN  [matched |-> TRUE, body |-> SubSeq(code, i + 1, j - 1)]

hasDrawFunctionAssumed(code) == TRUE

\* /function\s+draw\s*\(\s*\)\s*\{/.test(code)
hasDrawFunction(code) == \E i \in 1..Len(code) : code[i] = "draw{"

\* new Function(..., `with(p) { ${body} }`) compiles: the braces of the
\* wrapped text pair up.
SyntaxOk(body) ==
    LET w == <<"{">> \o body \o <<"}">>
        depth(n) == Cardinality({k \in 1..n : w[k] \in Openers})
                    - Cardinality({k \in 1..n : w[k] = "}"})
    IN  /\ \A n \in 1..Len(w) : depth(n) >= 0
        /\ depth(Len(w)) = 0

\* The wrapped function runs from token i.  depth counts the open blocks
\* (the with block is the first), skip the braces open inside a nested
\* function declaration, whose statements are declared and not run.  A
\* drawing call outside the with block finds no such name and throws.  The
\* code runs in the realm of the server: n is a property of its global scope.
\* A run that does not return normally names what ended it: "Error" (a
\* throw statement), "ReferenceError", "createCanvas" (what that call does
\* is the runtime's business) or "runaway" (a loop that never ends).
Ran(error, canvas, g) == [threw |-> error # "", error |-> error, canvas |-> canvas, g |-> g]

RECURSIVE Run(_, _, _, _, _, _)
Run(body, i, depth, skip, canvas, g) ==
    IF i > Len(body) THEN Ran("", canvas, g)
    ELSE LET tok == body[i]
         IN  IF skip > 0
             THEN Run(body, i + 1, depth,
                      IF tok \in Openers THEN skip + 1
                      ELSE IF tok = "}" THEN skip - 1 ELSE skip, canvas, g)
             ELSE IF tok \in FunctionTokens THEN Run(body, i + 1, depth, 1, canvas, g)
             ELSE IF tok = "{" THEN Run(body, i + 1, depth + 1, 0, canvas, g)
             ELSE IF tok = "}" THEN Run(body, i + 1, depth - 1, 0, canvas, g)
             ELSE IF tok = "x" THEN Ran("Error", canvas, g)
             ELSE IF tok = "w" THEN Ran("runaway", canvas, g)
             ELSE IF depth = 0 THEN Ran("ReferenceError", canvas, g)
             ELSE IF tok = "c" THEN Ran("createCanvas", canvas, g)
             ELSE IF tok = "g"
             THEN Run(body, i + 1, depth, 0, canvas \o "g" \o ToString(g + 1), g + 1)
             ELSE Run(body, i + 1, depth, 0, canvas \o tok, g)

\* wrappedSetup(p, ...) / wrappedDraw(p, ...)
CallWrapped(body, canvas, g) == Run(body, 1, 1, 0, canvas, g)

\* The body the code itself gives function NAME: from its header to the
\* brace that pairs with it.
DeclaredBody(code, header) ==
    LET i == Min({k \in 1..Len(code) : code[k] = header})
        level(n) == Cardinality({k \in i..n : code[k] \in Openers})
                    - Cardinality({k \in i..n : code[k] = "}"})
        j == Min({n \in i..Len(code) : level(n) = 0})
    IN  SubSeq(code, i + 1, j - 1)

Defines(code, header) == \E i \in 1..Len(code) : code[i] = header

\* One call of a wrapped function: which function the wrapper was built
\* for, the frame it was called for, and whether the text it was built from
\* is the body the code declares for that function.
Invocation(fn, frame, code, body) ==
    [fn |-> fn, frame |-> frame,
     own |-> Defines(code, fn \o "{") /\ body = DeclaredBody(code, fn \o "{")]

\* What a call of artist code raises under the runtime of executeSnapshot
\* and of part_013, which extendP5Runtime gave a createCanvas that throws.
ExtendedRuntime(error) ==
    IF error = "createCanvas" THEN "PROTOCOL_VIOLATION" ELSE error

\* The same under createLoopP5Runtime, which has no createCanvas property:
\* the name resolves nowhere.
LoopRuntime(error) ==
    IF error = "createCanvas" THEN "ReferenceError" ELSE error

Outcome(error, canvas, g, log) ==
    [threw |-> error # "", error |-> error, canvas |-> canvas, g |-> g, log |-> log]

\* executeSnapshot of the static path: setup from its match, or the whole
\* code when nothing matched; draw once when its regular expression matches.
executeSnapshot(code, g0) ==
    LET setupMatch == MatchFunction(code, "setup{")
        setupCode == IF setupMatch.matched THEN setupMatch.body ELSE code
        ranSetup == CallWrapped(setupCode, "", g0)
        drawMatch == MatchFunction(code, "draw{")
        ranDraw == CallWrapped(drawMatch.body, ranSetup.canvas, ranSetup.g)
        setupCall == Invocation("setup", 0, code, setupCode)
        drawCall == Invocation("draw", 1, code, drawMatch.body)
    IN  IF ~SyntaxOk(setupCode) THEN Outcome("SyntaxError", "", g0, <<>>)
        ELSE IF ranSetup.threw
        THEN Outcome(ExtendedRuntime(ranSetup.error), ranSetup.canvas, ranSetup.g,
                     <<setupCall>>)
        ELSE IF ~drawMatch.matched
        THEN Outcome("", ranSetup.canvas, ranSetup.g, <<setupCall>>)
        ELSE IF ~SyntaxOk(drawMatch.body)
        THEN Outcome("SyntaxError", ranSetup.canvas, ranSetup.g, <<setupCall>>)
        ELSE Outcome(ExtendedRuntime(ranDraw.error), ranDraw.canvas, ranDraw.g,
                     <<setupCall, drawCall>>)

\* The frame loop over frames frame .. totalFrames - 1: draw, then the
\* canvas is written as the PNG of that frame.  A throwing draw ends it.
\* The loop over a range is the loop over its first half followed, unless
\* that threw, by the loop over its second half.  drawCall is what a call
\* of wrappedDraw is logged as, but for its frame.
RECURSIVE Frames(_, _, _, _, _, _, _, _)
Frames(drawCall, drawCode, frame, totalFrames, canvas, g, buffers, log) ==
    IF frame >= totalFrames
    THEN [threw |-> FALSE, error |-> "", canvas |-> canvas, g |-> g,
          buffers |-> buffers, log |-> log]
    ELSE IF frame + 1 = totalFrames
    THEN LET drawn == CallWrapped(drawCode, canvas, g)
             logged == Append(log, [drawCall EXCEPT !.frame = frame])
         IN  [threw |-> drawn.threw, error |-> drawn.error, canvas |-> drawn.canvas,
              g |-> drawn.g,
              buffers |-> IF drawn.threw THEN buffers ELSE Append(buffers, drawn.canvas),
              log |-> logged]
    ELSE LET half == (frame + totalFrames) \div 2
             first == Frames(drawCall, drawCode, frame, half, canvas, g, buffers, log)
         IN  IF first.threw THEN first
             ELSE Frames(drawCall, drawCode, half, totalFrames, first.canvas, first.g,
                         first.buffers, first.log)

\* How far renderLoop got before it awaits the encoder: whether it threw,
\* whether mkdtempSync had run, and the frame files written.
Started(error, dirMade, g, buffers, log) ==
    [threw |-> error # "", error |-> error, dirMade |-> dirMade, g |-> g,
     buffers |-> buffers, log |-> log]

\* renderLoop of render-loop.js up to `await encodeVideo`.
renderLoop(code, totalFrames, g0) ==
    LET setupMatch == MatchFunction(code, "setup{")
        drawMatch == MatchFunction(code, "draw{")
        setupCode == setupMatch.body
        drawCode == drawMatch.body
        hasSetup == setupMatch.matched /\ setupCode # <<>>
        ranSetup == IF hasSetup THEN CallWrapped(setupCode, "", g0)
                    ELSE Ran("", "", g0)
        setupLog == IF hasSetup THEN <<Invocation("setup", 0, code, setupCode)>> ELSE <<>>
        ran == Frames(Invocation("draw", 0, code, drawCode), drawCode, 0, totalFrames,
                      ranSetup.canvas, ranSetup.g,
                      <<>>, setupLog)
    IN  IF totalFrames < 2 THEN Started("LOOP_MODE_ERROR", FALSE, g0, <<>>, <<>>)
        ELSE IF ~drawMatch.matched \/ drawCode = <<>>
        THEN Started("LOOP_MODE_ERROR", TRUE, g0, <<>>, <<>>)
        ELSE IF (hasSetup /\ ~SyntaxOk(setupCode)) \/ ~SyntaxOk(drawCode)
        THEN Started("SyntaxError", TRUE, g0, <<>>, <<>>)
        ELSE IF ranSetup.threw
        THEN Started(LoopRuntime(ranSetup.error), TRUE, ranSetup.g, <<>>, setupLog)
        ELSE Started(LoopRuntime(ran.error), TRUE, ran.g, ran.buffers, ran.log)

\* renderLoop of part_013 up to `await encodeVideo`.
renderLoop013(code, totalFrames, g0) ==
    LET setupMatch == MatchFunction(code, "setup{")
        drawMatch == MatchFunction(code, "draw{")
        setupCode == setupMatch.body
        drawCode == drawMatch.body
        ranSetup == CallWrapped(setupCode, "", g0)
        setupLog == <<Invocation("setup", 0, code, setupCode)>>
        ran == Frames(Invocation("draw", 0, code, drawCode), drawCode, 0, totalFrames,
                      ranSetup.canvas, ranSetup.g,
                      <<>>, setupLog)
    IN  IF ~hasDrawFunction(code) THEN Started("LOOP_MODE_ERROR", FALSE, g0, <<>>, <<>>)
        ELSE IF ~SyntaxOk(setupCode) \/ ~SyntaxOk(drawCode)
        THEN Started("SyntaxError", FALSE, g0, <<>>, <<>>)
        ELSE IF ranSetup.threw
        THEN Started(ExtendedRuntime(ranSetup.error), TRUE, ranSetup.g, <<>>, setupLog)
        ELSE Started(ExtendedRuntime(ran.error), TRUE, ran.g, ran.buffers, ran.log)

\* fs.mkdtempSync: a directory no other call has.
mkdtempSync(fs, d) == [fs EXCEPT !.dirs = @ \cup {d}]

\* fs.writeFileSync: the file of that name in that directory now holds data.
writeFileSync(fs, d, name, data) ==
    [fs EXCEPT !.files = {f \in @ : ~(f[1] = d /\ f[2] = name)} \cup {<<d, name, data>>}]

FramePath(frame) == "frame_" \o ToString(frame)

\* The writes of the frame loop, the k-th buffer to the file of frame
\* k - 1, each replacing a file of that name.
WriteFrames(fs, d, buffers) ==
    LET paths == {FramePath(k - 1) : k \in 1..Len(buffers)}
    IN  [fs EXCEPT !.files = {f \in @ : ~(f[1] = d /\ f[2] \in paths)}
                             \cup {<<d, FramePath(k - 1), buffers[k]>> : k \in 1..Len(buffers)}]

readFileSync(fs, d, name) == (CHOOSE f \in fs.files : f[1] = d /\ f[2] = name)[3]

\* What the encoder is given: the frame files of the directory in the
\* order of their numbers, from frame 0 up to the first number missing.
InputPattern(fs, d) ==
    LET inDir == {f \in fs.files : f[1] = d}
        names == {f[2] : f \in inDir}
        n == Min({k \in 0..Cardinality(inDir) : FramePath(k) \notin names})
    IN  [k \in 1..n |-> LET path == FramePath(k - 1)
                         IN  (CHOOSE f \in inDir : f[2] = path)[3]]

\* The name of the scratch directory of the d-th renderLoop call:
\* mkdtempSync gives every call a name of its own.
TmpDirShared(d) == 1

TmpDir(d) == d

RemoveScratchSkipped(fs, d) == fs

\* The finally block: every file of the directory is unlinked, then the
\* directory is removed.
RemoveScratch(fs, d) ==
    [dirs |-> fs.dirs \ {d}, files |-> {f \in fs.files : f[1] # d}]

NoRender == [bytes |-> "", hash |-> "", poster |-> "", posterHash |-> ""]

RenderResult(bytes, poster) ==
    [bytes |-> bytes, hash |-> HexDigest(bytes),
     poster |-> poster, posterHash |-> IF poster = "" THEN "" ELSE HexDigest(poster)]

\* How a call that has left its artist code stands: what it threw, a
\* runaway loop that will never return, or the point it reached.
Pc(error, reached) ==
    IF error = "runaway" THEN "hung" ELSE IF error # "" THEN "threw" ELSE reached

\* posterBuffer: the PNG the frame loop kept at frame 0.
PosterLast(buffers) == IF buffers = <<>> THEN "" ELSE buffers[Len(buffers)]

posterBuffer(buffers) == IF buffers = <<>> THEN "" ELSE buffers[1]

Call(mode, code, totalFrames, g0, error, pc, dirMade, buffers, log, result) ==
    [mode |-> mode, code |-> code, totalFrames |-> totalFrames, g0 |-> g0,
     error |-> error, pc |-> pc,
     dirMade |-> dirMade, buffers |-> buffers, poster |-> posterBuffer(buffers),
     log |-> log, result |-> result, encoder |-> ""]

RenderInit ==
    /\ build = "attest_js"
    /\ CanonIdle
    /\ VerifyIdle
    /\ AttestIdle
    /\ RuntimeIdle
    /\ loopModule \in {"render_loop_js", "part_013"}
    /\ calls = <<>>
    /\ globalScope = 0
    /\ tmp = EmptyTmp
    /\ responses = <<>>

RenderFrame == UNCHANGED <<build, canonVars, verifyVars, attestVars, runtimeVars,
                           loopModule, responses>>

\* A static render: executeSnapshot runs to its end in one turn of the
\* event loop; the response carries the PNG of the canvas and its hash.
RenderStatic ==
    /\ Len(calls) < MaxCalls
    /\ \E code \in Programs :
          LET ran == executeSnapshot(code, globalScope)
          IN  /\ calls' = Append(calls,
                    Call("static", code, 0, globalScope, ran.error,
                         Pc(ran.error, "returned"), FALSE, <<>>, ran.log,
                         IF ran.threw THEN NoRender ELSE RenderResult(ran.canvas, "")))
              /\ globalScope' = ran.g
    /\ UNCHANGED tmp
    /\ RenderFrame

\* A loop render from its call to the await of the encoder, or to the
\* exception that ends it; the finally block runs in the same turn.
RenderLoop ==
    /\ Len(calls) < MaxCalls
    /\ \E code \in Programs, totalFrames \in 1..MaxFrames :
          LET d == Len(calls) + 1
              st == IF loopModule = "part_013"
                    THEN renderLoop013(code, totalFrames, globalScope)
                    ELSE renderLoop(code, totalFrames, globalScope)
              pc == Pc(st.error, "encoding")
              written == WriteFrames(mkdtempSync(tmp, TmpDir(d)), TmpDir(d), st.buffers)
          IN  /\ calls' = Append(calls,
                    Call("loop", code, totalFrames, globalScope, st.error, pc, st.dirMade,
                         IF pc = "threw" THEN <<>> ELSE st.buffers, st.log, NoRender))
              /\ globalScope' = st.g
              /\ tmp' = IF ~st.dirMade THEN tmp
                        ELSE IF pc = "threw" THEN RemoveScratch(written, TmpDir(d))
                        ELSE written
    /\ RenderFrame

\* The encoder process of a loop render has closed: it wrote the video, it
\* wrote a file of under 1000 bytes, or it exited non-zero.  The call goes
\* on to its return or throw, through the finally block.
EncoderExits ==
    /\ \E d \in 1..Len(calls), exit \in {"ok", "small", "failed"} :
          LET c == calls[d]
              video == IF exit = "small" THEN ""
                       ELSE Join(InputPattern(tmp, TmpDir(d)))
              error == IF exit = "failed" THEN "ffmpeg exited"
                       ELSE IF exit = "small" /\ loopModule = "render_loop_js"
                       THEN "LOOP_MODE_ERROR"
                       ELSE ""
              encoded == IF exit = "failed" THEN tmp
                         ELSE writeFileSync(tmp, TmpDir(d), "out.mp4", video)
          IN  /\ c.pc = "encoding"
              /\ calls' = [calls EXCEPT ![d] =
                    [@ EXCEPT !.pc = Pc(error, "returned"),
                              !.error = error,
                              !.buffers = <<>>,
                              !.encoder = exit,
                              !.result = IF error # "" THEN NoRender
                                         ELSE RenderResult(
                                            readFileSync(encoded, TmpDir(d), "out.mp4"),
                                            c.poster)]]
              /\ tmp' = RemoveScratch(encoded, TmpDir(d))
    /\ UNCHANGED globalScope
    /\ RenderFrame

RenderNext == RenderStatic \/ RenderLoop \/ EncoderExits

SpecRender == RenderInit /\ [][RenderNext]_vars

Ended(c) == c.pc \in {"returned", "threw"}

SameInputs(c, d) ==
    c.mode = d.mode /\ c.code = d.code /\ c.totalFrames = d.totalFrames

\* C6: two executions with identical inputs that both return a result
\* return the same bytes and hashes, whatever ran before or between them.
C6_Deterministic ==
    \A i, j \in 1..Len(calls) :
        (/\ calls[i].pc = "returned" /\ calls[j].pc = "returned"
         /\ SameInputs(calls[i], calls[j])
         /\ calls[i].encoder = calls[j].encoder)
        => calls[i].result = calls[j].result

OwnCalls(c, fn) == SelectSeq(c.log, LAMBDA e : e.fn = fn /\ e.own)

\* C10: a loop render of N frames calls setup once, before the first draw,
\* and draw N times for frames 0..N-1 in order; a static render calls setup
\* once and then draw once if the code defines draw, and never otherwise.
C10_SetupOnceDrawPerFrame ==
    \A i \in 1..Len(calls) :
        LET c == calls[i]
            draws == OwnCalls(c, "draw")
        IN  c.pc = "returned" =>
              /\ Defines(c.code, "setup{") =>
                    Len(OwnCalls(c, "setup")) = 1 /\ c.log[1].fn = "setup"
              /\ c.mode = "loop" =>
                    /\ Len(draws) = c.totalFrames
                    /\ \A k \in 1..Len(draws) : draws[k].frame = k - 1
              /\ c.mode = "static" =>
                    Len(draws) = IF Defines(c.code, "draw{") THEN 1 ELSE 0

RenderError(error) ==
    IF error = "PROTOCOL_VIOLATION" THEN [status |-> 400, error |-> "PROTOCOL_VIOLATION"]
    ELSE IF error = "LOOP_MODE_ERROR" THEN [status |-> 400, error |-> "LOOP_MODE_ERROR"]
    ELSE [status |-> 500, error |-> "EXECUTION_ERROR"]

\* C13: when the encoder of a loop render exits with a non-zero code, the
\* render fails with the error ENCODE_ERROR and returns no video bytes, no
\* poster and no hashes.
C13_EncoderFailureIsEncodeError ==
    \A d \in 1..Len(calls) :
        calls[d].encoder = "failed" =>
            /\ calls[d].pc = "threw"
            /\ RenderError(calls[d].error).error = "ENCODE_ERROR"
            /\ calls[d].result = NoRender

\* The frames a loop call's own draw calls produced, from the code it was
\* given and the global scope it started in.
OwnFrames(c) ==
    IF loopModule = "part_013" THEN renderLoop013(c.code, c.totalFrames, c.g0).buffers
    ELSE renderLoop(c.code, c.totalFrames, c.g0).buffers

\* C15: while loop renders overlap, the frame files the encoder of a call
\* is given are exactly the frames that call wrote, and the video a call
\* returns is made of its own frames only.
C15_OwnScratchOnly ==
    \A d \in 1..Len(calls) :
        LET c == calls[d]
        IN  /\ c.pc = "encoding" =>
                  /\ InputPattern(tmp, TmpDir(d)) = c.buffers
                  /\ c.buffers = OwnFrames(c)
            /\ (c.mode = "loop" /\ c.pc = "returned" /\ c.encoder = "ok") =>
                  c.result.bytes = Join(OwnFrames(c))

\* C15 witness: a later call has returned its video while an earlier call,
\* which wrote other frames, is still waiting for its encoder.
C15_Witness ==
    \E d, e \in 1..Len(calls) :
        /\ d < e
        /\ calls[d].pc = "encoding"
        /\ calls[e].pc = "returned" /\ calls[e].encoder = "ok"
        /\ calls[e].result.bytes # Join(calls[d].buffers)

MaxResponses == 2

DefaultTotalFrames == 120

CANVAS_WIDTH == 1950

CANVAS_HEIGHT == 2400

\* A number of the request body that may be missing.
Absent == [given |-> FALSE, n |-> 0]

Num(n) == [given |-> TRUE, n |-> n]

\* value || fallback: a missing value and 0 are both falsy.
OrDefault(value, fallback) == IF value.given /\ value.n # 0 THEN value.n ELSE fallback

RenderRequest(route, code, mode, totalFrames, width, height) ==
    [route |-> route, code |-> code, mode |-> mode, totalFrames |-> totalFrames,
     width |-> width, height |-> height]

Sketch == <<"setup{", "a", "}", "draw{", "a", "}">>

SetupOnly == <<"setup{", "a", "}">>

ResizingSetup == <<"setup{", "c", "}", "draw{", "a", "}">>

ResizingDraw == <<"setup{", "a", "}", "draw{", "c", "}">>

RunawaySetup == <<"setup{", "w", "}", "draw{", "a", "}">>

RunawayDraw == <<"setup{", "a", "}", "draw{", "w", "}">>

\* The bodies of POST /render the model sends: {code, execution: {mode,
\* totalFrames}} and, though the route does not read them, width and height.
RenderBodies ==
    { RenderRequest("/render", Sketch, "", Absent, Absent, Absent),
      RenderRequest("/render", Sketch, "", Absent, Num(800), Num(600)),
      RenderRequest("/render", Sketch, "loop", Absent, Absent, Absent),
      RenderRequest("/render", Sketch, "loop", Num(2), Absent, Absent),
      RenderRequest("/render", Sketch, "loop", Num(1), Absent, Absent),
      RenderRequest("/render", Sketch, "loop", Num(0), Absent, Absent),
      RenderRequest("/render", Sketch, "loop", Num(-1), Absent, Absent),
      RenderRequest("/render", SetupOnly, "loop", Num(2), Absent, Absent),
      RenderRequest("/render", ResizingSetup, "", Absent, Absent, Absent),
      RenderRequest("/render", ResizingDraw, "loop", Num(2), Absent, Absent),
      RenderRequest("/render", RunawaySetup, "", Absent, Absent, Absent),
      RenderRequest("/render", RunawayDraw, "loop", Num(2), Absent, Absent) }

\* The bodies of POST /api/render: {code, width, height}.
ApiRenderBodies ==
    { RenderRequest("/api/render", Sketch, "", Absent, Absent, Absent),
      RenderRequest("/api/render", Sketch, "", Absent, Num(CANVAS_WIDTH), Num(CANVAS_HEIGHT)),
      RenderRequest("/api/render", Sketch, "", Absent, Num(800), Absent),
      RenderRequest("/api/render", Sketch, "", Absent, Absent, Num(600)),
      RenderRequest("/api/render", Sketch, "", Absent, Num(0), Num(0)),
      RenderRequest("/api/render", ResizingSetup, "", Absent, Absent, Absent),
      RenderRequest("/api/render", RunawayDraw, "", Absent, Absent, Absent) }

\* The sources given to renderStatic of part_008.
SketchSources ==
    { RenderRequest("renderStatic", code, "", Absent, Absent, Absent) :
        code \in {Sketch, ResizingSetup, RunawaySetup, RunawayDraw} }

\* detectLoopMode(code, execution)
detectLoopMode(code, mode, totalFrames) ==
    \/ mode = "loop"
    \/ hasDrawFunction(code) /\ totalFrames.given /\ totalFrames.n > 1

\* What became of a request: the response sent (status, error code, the
\* result it carries, the number of frames rendered for it), or "hung"
\* when the handler never got as far as a response.
Response(req, pc, status, error, result, frames) ==
    [req |-> req, pc |-> pc, status |-> status, error |-> error,
     result |-> result, frames |-> frames]

Hung(req) == Response(req, "hung", 0, "", NoRender, 0)

Failed(req, reply) == Response(req, "responded", reply.status, reply.error, NoRender, 0)

\* The catch block of POST /api/render.
ApiRenderError(error) ==
    IF error = "PROTOCOL_VIOLATION" THEN [status |-> 400, error |-> "PROTOCOL_VIOLATION"]
    ELSE [status |-> 500, error |-> "RENDER_ERROR"]

\* The event loop is held by artist code that does not return.
Blocked == \E i \in 1..Len(responses) : responses[i].pc = "hung"

HttpInit ==
    /\ build = "attest_js"
    /\ CanonIdle
    /\ VerifyIdle
    /\ AttestIdle
    /\ RuntimeIdle
    /\ loopModule \in {"render_loop_js", "part_013"}
    /\ calls = <<>>
    /\ globalScope = 0
    /\ tmp = EmptyTmp
    /\ responses = <<>>

HttpFrame == UNCHANGED <<build, canonVars, verifyVars, runtimeVars, loopModule, calls,
                         reqs, ledger, pendingProofs, ingest>>

\* The static branch of a render route: executeSnapshot, then the PNG.
StaticReply(req, ran, caught) ==
    IF ran.error = "runaway" THEN Hung(req)
    ELSE IF ran.threw THEN Failed(req, caught)
    ELSE Response(req, "responded", 200, "", RenderResult(ran.canvas, ""), 1)

\* POST /render.
PostRender ==
    /\ Len(responses) < MaxResponses
    /\ ~Blocked
    /\ \E req \in RenderBodies :
          LET isLoopMode == detectLoopMode(req.code, req.mode, req.totalFrames)
              totalFrames == OrDefault(req.totalFrames, DefaultTotalFrames)
              d == Len(responses) + 1
              st == IF loopModule = "part_013"
                    THEN renderLoop013(req.code, totalFrames, globalScope)
                    ELSE renderLoop(req.code, totalFrames, globalScope)
              written == WriteFrames(mkdtempSync(tmp, TmpDir(d)), TmpDir(d), st.buffers)
              encoded == Join(InputPattern(written, TmpDir(d)))
              ran == executeSnapshot(req.code, globalScope)
          IN  IF ~isLoopMode
              THEN /\ responses' = Append(responses, StaticReply(req, ran, RenderError(ran.error)))
                   /\ globalScope' = ran.g
                   /\ UNCHANGED tmp
              ELSE IF totalFrames < 2
              THEN /\ responses' = Append(responses, Failed(req, RenderError("LOOP_MODE_ERROR")))
                   /\ UNCHANGED <<globalScope, tmp>>
              ELSE IF st.error = "runaway"
              THEN /\ responses' = Append(responses, Hung(req))
                   /\ globalScope' = st.g
                   /\ tmp' = IF st.dirMade THEN written ELSE tmp
              ELSE IF st.threw
              THEN /\ responses' = Append(responses, Failed(req, RenderError(st.error)))
                   /\ globalScope' = st.g
                   /\ tmp' = IF st.dirMade THEN RemoveScratch(written, TmpDir(d)) ELSE tmp
              ELSE /\ \E exit \in {"ok", "small", "failed"} :
                        LET video == IF exit = "small" THEN "" ELSE encoded
                            error == IF exit = "failed" THEN "ffmpeg exited"
                                     ELSE IF exit = "small" /\ loopModule = "render_loop_js"
                                     THEN "LOOP_MODE_ERROR"
                                     ELSE ""
                        IN  responses' = Append(responses,
                               IF error # "" THEN Failed(req, RenderError(error))
                               ELSE Response(req, "responded", 200, "",
                                             RenderResult(video, posterBuffer(st.buffers)),
                                             Len(st.buffers)))
                   /\ globalScope' = st.g
                   /\ tmp' = RemoveScratch(written, TmpDir(d))
    /\ UNCHANGED <<usageEvents, pendingUsage>>
    /\ HttpFrame

\* POST /api/render: the quota of the account, the checks of the body,
\* executeSnapshot, the PNG; a 200 is logged as a usage event.
PostApiRender ==
    /\ Len(responses) < MaxResponses
    /\ ~Blocked
    /\ \E req \in ApiRenderBodies :
          LET ran == executeSnapshot(req.code, globalScope)
              reply == StaticReply(req, ran, ApiRenderError(ran.error))
              violation == [status |-> 400, error |-> "PROTOCOL_VIOLATION"]
          IN  IF getAccountQuota(usageEvents, MonthlyLimit).exceeded
              THEN /\ responses' = Append(responses,
                          Failed(req, [status |-> 429, error |-> "QUOTA_EXCEEDED"]))
                   /\ UNCHANGED <<globalScope, pendingUsage>>
              ELSE IF req.width.given /\ req.width.n # 0 /\ req.width.n # CANVAS_WIDTH
              THEN /\ responses' = Append(responses, Failed(req, violation))
                   /\ UNCHANGED <<globalScope, pendingUsage>>
              ELSE IF req.height.given /\ req.height.n # 0 /\ req.height.n # CANVAS_HEIGHT
              THEN /\ responses' = Append(responses, Failed(req, violation))
                   /\ UNCHANGED <<globalScope, pendingUsage>>
              ELSE /\ responses' = Append(responses, reply)
                   /\ globalScope' = ran.g
                   /\ pendingUsage' = IF reply.status = 200 THEN pendingUsage + 1
                                      ELSE pendingUsage
    /\ UNCHANGED <<usageEvents, tmp>>
    /\ HttpFrame

\* What artist code raises inside the vm context of runSketch: the sandbox
\* has no createCanvas, and vm ends a script that runs past its timeout.
SketchRuntime(error) ==
    IF error = "createCanvas" THEN "ReferenceError"
    ELSE IF error = "runaway" THEN "ERR_SCRIPT_EXECUTION_TIMEOUT"
    ELSE error

\* runSketch: vm.runInContext(wrapped, sandbox, {timeout: 2000}) runs the
\* statements of the source and then setup(), in a context of its own.
runSketch(code) ==
    LET top == Run(code, 1, 1, 0, "", 0)
        setup == IF Defines(code, "setup{")
                 THEN Run(DeclaredBody(code, "setup{"), 1, 1, 0, top.canvas, top.g)
                 ELSE top
    IN  IF ~SyntaxOk(code) THEN Ran("SyntaxError", "", 0)
        ELSE IF top.threw THEN Ran(SketchRuntime(top.error), top.canvas, top.g)
        ELSE Ran(SketchRuntime(setup.error), setup.canvas, setup.g)

\* The function runSketch returns: sandbox.__drawFrame(), called by
\* renderStatic outside runInContext and so under no timeout.
drawFrame(code, sketch) ==
    LET draw == IF Defines(code, "draw{")
                THEN Run(DeclaredBody(code, "draw{"), 1, 1, 0, sketch.canvas, sketch.g)
                ELSE sketch
    IN  Ran(IF draw.error = "runaway" THEN "runaway" ELSE SketchRuntime(draw.error),
            draw.canvas, draw.g)

\* renderStatic of part_008: runSketch, one drawFrame, the PNG and its hash.
RenderStaticSketch ==
    /\ Len(responses) < MaxResponses
    /\ ~Blocked
    /\ \E req \in SketchSources :
          LET sketch == runSketch(req.code)
              drawn == drawFrame(req.code, sketch)
          IN  responses' = Append(responses,
                 IF sketch.threw
                 THEN Response(req, "threw", 0, sketch.error, NoRender, 0)
                 ELSE IF drawn.error = "runaway" THEN Hung(req)
                 ELSE IF drawn.threw
                 THEN Response(req, "threw", 0, drawn.error, NoRender, 0)
                 ELSE Response(req, "returned", 0, "", RenderResult(drawn.canvas, ""), 1))
    /\ UNCHANGED <<globalScope, tmp, usageEvents, pendingUsage>>
    /\ HttpFrame

\* The insert of a usage event settles, once the event loop is free.
LogUsageSettles == ~Blocked /\ UsageInsertSettles

HttpNext == PostRender \/ PostApiRender \/ RenderStaticSketch \/ LogUsageSettles

SpecHttp == HttpInit /\ [][HttpNext]_vars

\* The request asked for loop mode with a frame count below 2.
TooFewFrames(req) ==
    req.route = "/render" /\ req.mode = "loop" /\ req.totalFrames.given
    /\ req.totalFrames.n < 2

\* C11: a loop-mode request whose totalFrames is 1, 0 or negative is
\* answered LOOP_MODE_ERROR with no render result, and no frame is rendered
\* for it: no default frame count takes the place of the value it gave.
C11_TooFewFramesRejected ==
    \A i \in 1..Len(responses) :
        TooFewFrames(responses[i].req) =>
            /\ responses[i].pc = "responded"
            /\ responses[i].error = "LOOP_MODE_ERROR"
            /\ responses[i].result = NoRender
            /\ responses[i].frames = 0

\* The code of the request has a loop that never ends, in setup or in draw.
RunsAway(req) == req.code \in {RunawaySetup, RunawayDraw}

\* C14: a request whose setup or draw runs past the wall-clock cap has that
\* code terminated and ends in a reported error, with no image or frame
\* returned.
C14_ArtistCodeTimeBounded ==
    \A i \in 1..Len(responses) :
        RunsAway(responses[i].req) =>
            /\ responses[i].pc # "hung"
            /\ responses[i].error # ""
            /\ responses[i].result = NoRender

\* The request tries to change the canvas size: its code calls
\* createCanvas, or it names a width or height other than 1950 x 2400.
Resizes(req) ==
    \/ req.code \in {ResizingSetup, ResizingDraw}
    \/ req.width.given /\ req.width.n # CANVAS_WIDTH
    \/ req.height.given /\ req.height.n # CANVAS_HEIGHT

\* C20: a request to a render route of the server that tries to change the
\* canvas size, and is within its quota, is answered PROTOCOL_VIOLATION
\* and gets no render result.
C20_ResizeIsProtocolViolation ==
    \A i \in 1..Len(responses) :
        LET r == responses[i]
        IN  (r.req.route \in {"/render", "/api/render"} /\ Resizes(r.req)
             /\ r.error # "QUOTA_EXCEEDED") =>
                /\ r.pc = "responded"
                /\ r.error = "PROTOCOL_VIOLATION"
                /\ r.result = NoRender

(***************************************************************************)
(* The seeded generator: createSeededRNG of render-loop.js, random of      *)
(* runSketch, mulberry32 of part_009.  Its state is a JavaScript number,   *)
(* a double, that `+=` never brings back under 2^32; the bitwise           *)
(* operators read its low 32 bits.  A returned value v / 4294967296 is     *)
(* kept as its numerator v.                                                *)
(***************************************************************************)
MaxDraws == 16

\* Calls a generator may have answered before the first one followed here:
\* so few that its state has not reached 2^53 for any seed.
DrawsBefore == 4917750

Half == 65536

RECURSIVE BitXor(_, _, _)
BitXor(a, b, bits) ==
    IF bits = 0 THEN 0
    ELSE ((a + b) % 2) + 2 * BitXor(a \div 2, b \div 2, bits - 1)

RECURSIVE BitOr(_, _, _)
BitOr(a, b, bits) ==
    IF bits = 0 THEN 0
    ELSE (IF a % 2 = 1 \/ b % 2 = 1 THEN 1 ELSE 0) + 2 * BitOr(a \div 2, b \div 2, bits - 1)

\* u ^ v
Xor32(u, v) == U32(BitXor(u.hi, v.hi, 16), BitXor(u.lo, v.lo, 16))

\* u | n, for n below 2^16
Or32(u, n) == U32(u.hi, BitOr(u.lo, n, 16))

\* u >>> n, for 0 < n < 16
Shr32(u, n) == U32(u.hi \div 2^n, (u.lo \div 2^n) + (u.hi % 2^n) * 2^(16 - n))

\* The low 32 bits of u + v.
Add32(u, v) ==
    LET lo == u.lo + v.lo
    IN  U32((u.hi + v.hi + lo \div Half) % Half, lo % Half)

\* The product of two 16-bit numbers, the second taken a byte at a time.
Mul16(m, n) ==
    LET p1 == m * (n % 256)
        p2 == m * (n \div 256)
        low == p1 + (p2 % 256) * 256
    IN  U32(p2 \div 256 + low \div Half, low % Half)

\* Math.imul(u, v): the low 32 bits of the product.
imul(u, v) ==
    LET p == Mul16(u.lo, v.lo)
        cross == Mul16(u.hi, v.lo).lo + Mul16(u.lo, v.hi).lo
    IN  U32((p.hi + cross) % Half, p.lo)

\* 0x6d2b79f5
Increment == U32(27947, 31221)

Big(u) == <<u.lo, u.hi, 0, 0>>

\* The sum of two integers of four halves.
BigAdd(m, n) ==
    LET s1 == m[1] + n[1]
        s2 == m[2] + n[2] + s1 \div Half
        s3 == m[3] + n[3] + s2 \div Half
        s4 == m[4] + n[4] + s3 \div Half
    IN  <<s1 % Half, s2 % Half, s3 % Half, s4 % Half>>

\* m times a number of at most 256.
BigTimesSmall(m, n) ==
    LET s1 == m[1] * n
        s2 == m[2] * n + s1 \div Half
        s3 == m[3] * n + s2 \div Half
        s4 == m[4] * n + s3 \div Half
    IN  <<s1 % Half, s2 % Half, s3 % Half, s4 % Half>>

\* m times k, k taken a byte at a time.
RECURSIVE BigTimes(_, _)
BigTimes(m, k) ==
    IF k = 0 THEN <<0, 0, 0, 0>>
    ELSE BigAdd(BigTimesSmall(BigTimes(m, k \div 256), 256), BigTimesSmall(m, k % 256))

RECURSIVE BitLength(_)
BitLength(n) == IF n = 0 THEN 0 ELSE 1 + BitLength(n \div 2)

\* The double nearest to the integer m, ties to the even significand: an
\* integer below 2^53 is a double; above, the doubles are 2^e apart, e the
\* number of bits m has beyond 53.
RoundToDouble(m) ==
    LET e == BitLength(m[4]) - 5
        step == 2^e
        rest == m[1] % step
        down == [m EXCEPT ![1] = @ - rest]
        up == BigAdd(down, <<step, 0, 0, 0>>)
    IN  IF e <= 0 \/ rest = 0 THEN m
        ELSE IF 2 * rest < step THEN down
        ELSE IF 2 * rest > step THEN up
        ELSE IF (m[1] \div step) % 2 = 0 THEN down
        ELSE up

\* ToUint32 of the state: what ^, | and >>> make of the double.
ToUint32(m) == U32(m[2], m[1])

\* The value made from the 32 bits s of the state:
\*   t = Math.imul(s ^ (s >>> 15), s | 1);
\*   t ^= t + Math.imul(t ^ (t >>> 7), t | 61);
\*   return ((t ^ (t >>> 14)) >>> 0) / 4294967296
Mulberry(s) ==
    LET t == imul(Xor32(s, Shr32(s, 15)), Or32(s, 1))
        r == Xor32(t, Add32(t, imul(Xor32(t, Shr32(t, 7)), Or32(t, 61))))
    IN  Xor32(r, Shr32(r, 14))

Seeds == {U32(0, 0), U32(0, 1), U32(0, 12345), U32(65535, 65535)}

\* createSeededRNG(seed) with k calls behind it: until 2^53 every sum is
\* exact, so the state is seed + k * 0x6d2b79f5.
Generator(seed, k) ==
    [seed |-> seed, a |-> BigAdd(Big(seed), BigTimes(Big(Increment), k)), k |-> k,
     made |-> 0, value |-> U32(0, 0)]

RngInit ==
    /\ build = "attest_js"
    /\ CanonIdle
    /\ VerifyIdle
    /\ AttestIdle
    /\ RenderIdle
    /\ PrepIdle
    /\ ShellIdle
    /\ rng \in {Generator(seed, k) : seed \in Seeds, k \in {0, DrawsBefore}}
    /\ rng.a[4] < 32

\* One call of the generator: a += 0x6d2b79f5, then the value from the
\* low 32 bits of a.
NextUniform ==
    /\ rng.made < MaxDraws
    /\ LET a == RoundToDouble(BigAdd(rng.a, Big(Increment)))
       IN  rng' = [rng EXCEPT !.a = a, !.k = @ + 1, !.made = @ + 1,
                              !.value = Mulberry(ToUint32(a))]
    /\ UNCHANGED <<build, canonVars, verifyVars, attestVars, renderVars, prep, shellVars>>

RngNext == NextUniform

SpecRng == RngInit /\ [][RngNext]_vars

\* (seed + k * 0x6D2B79F5) mod 2^32
StateAfter(seed, k) == ToUint32(BigAdd(Big(seed), BigTimes(Big(Increment), k)))

\* C17: after k calls the 32 bits of the generator state are
\* (seed + k * 0x6D2B79F5) mod 2^32, and the value the k-th call returned
\* is the formula applied to that state.
C17_StateIsSeedPlusSteps ==
    /\ ToUint32(rng.a) = StateAfter(rng.seed, rng.k)
    /\ rng.made > 0 => rng.value = Mulberry(StateAfter(rng.seed, rng.k))

(***************************************************************************)
(* The head of an execution: the numeric seed and the ten VAR values made  *)
(* from the seed and vars of the snapshot.  server.js reaches              *)
(* executeSnapshot from POST /render with the snapshot as sent and from    *)
(* POST /api/render with {code, seed: seed || "default", vars}; the        *)
(* server of part_009 calls executeCodeMode with seed ?? "0".  A seed is a *)
(* number (an integer of four halves), a string (its char codes) or        *)
(* missing.                                                                *)
(***************************************************************************)
MaxVars == 2

VarCount == 10

SeedNumber(big) == JVal("num", 0, "", big)

SeedString(codes) == JVal("str", 0, "", codes)

SeedInputs ==
    { JUndef,
      SeedNumber(<<0, 0, 0, 0>>), SeedNumber(<<1, 0, 0, 0>>), SeedNumber(<<12345, 0, 0, 0>>),
      SeedNumber(<<0, 0, 1, 0>>), SeedNumber(<<1, 0, 1, 0>>),
      SeedString(<<>>), SeedString(<<97>>), SeedString(<<97, 98>>),
      SeedString(<<100, 101, 102, 97, 117, 108, 116>>) }

VarEntries ==
    {JNum(-5), JNum(0), JNum(50), JNum(100), JNum(150),
     JNonFinite("NaN"), JNonFinite("Infinity")}

RECURSIVE SeqsUpTo(_, _)
SeqsUpTo(S, n) ==
    IF n = 0 THEN {<<>>}
    ELSE LET shorter == SeqsUpTo(S, n - 1)
         IN  shorter \cup {Append(q, e) : q \in shorter, e \in S}

\* snapshot.vars: missing, or an array of up to MaxVars entries.
VarInputs == {JUndef} \cup {JArr(items) : items \in SeqsUpTo(VarEntries, MaxVars)}

Falsy(v) ==
    \/ v.t = "undefined"
    \/ v.t = "num" /\ v.kids = <<0, 0, 0, 0>>
    \/ v.t = "str" /\ v.kids = <<>>

\* seed.split("").reduce((acc, c) => (acc * 31 + c.charCodeAt(0)) >>> 0, 0)
RECURSIVE Fold(_, _)
Fold(acc, codes) ==
    IF codes = <<>> THEN acc
    ELSE Fold(ToUint32(BigAdd(BigTimesSmall(Big(acc), 31), <<Head(codes), 0, 0, 0>>)),
              Tail(codes))

\* typeof seed === "string" ? fold : (seed ?? 0) >>> 0
numericSeed(seed) ==
    IF seed.t = "str" THEN Fold(U32(0, 0), seed.kids)
    ELSE IF seed.t = "undefined" THEN U32(0, 0)
    ELSE ToUint32(seed.kids)

\* The seed the route hands to the execution.
SeedGiven(server, route, seed) ==
    IF server = "part_009"
    THEN IF seed.t = "undefined" THEN SeedString(<<48>>) ELSE seed
    ELSE IF route = "/api/render"
    THEN IF Falsy(seed) THEN SeedString(<<100, 101, 102, 97, 117, 108, 116>>) ELSE seed
    ELSE seed

Items(arr) == [i \in 1..Len(arr.kids) |-> arr.kids[i].v]

\* normalizedVars of executeSnapshot and renderLoop: a finite number within
\* 0..100 is kept, anything else leaves the 0 the array was filled with.
normalizedVars(given) ==
    [i \in 1..VarCount |->
        IF given.t = "arr" /\ i <= Len(given.kids) /\ Items(given)[i].t = "num"
           /\ Items(given)[i].n >= 0 /\ Items(given)[i].n <= 100
        THEN Items(given)[i]
        ELSE JNum(0)]

\* Math.max(0, Math.min(100, v))
Clamp(v) ==
    IF v.t = "num" THEN JNum(IF v.n < 0 THEN 0 ELSE IF v.n > 100 THEN 100 ELSE v.n)
    ELSE IF v.s = "Infinity" THEN JNum(100)
    ELSE v

\* VAR of createP5Runtime in part_009: every entry given is clamped.
clampedVars(given) ==
    [i \in 1..VarCount |->
        IF given.t = "arr" /\ i <= Len(given.kids) THEN Clamp(Items(given)[i]) ELSE JNum(0)]

PrepInit ==
    /\ build = "attest_js"
    /\ CanonIdle
    /\ VerifyIdle
    /\ AttestIdle
    /\ RenderIdle
    /\ RngIdle
    /\ ShellIdle
    /\ \E server \in {"server_js", "part_009"}, route \in {"/render", "/api/render"},
          seed \in SeedInputs, given \in VarInputs :
          /\ (server = "part_009" => route = "/render")
          /\ prep = [server |-> server, route |-> route, seed |-> seed, vars |-> given,
                     done |-> FALSE, numericSeed |-> U32(0, 0), VAR |-> <<>>]

\* The route builds the snapshot and the execution derives its inputs.
Prepare ==
    /\ ~prep.done
    /\ prep.server # ""
    /\ prep' = [prep EXCEPT
                   !.done = TRUE,
                   !.numericSeed = numericSeed(SeedGiven(prep.server, prep.route, prep.seed)),
                   !.VAR = IF prep.server = "part_009" THEN clampedVars(prep.vars)
                           ELSE normalizedVars(prep.vars)]
    /\ UNCHANGED <<build, canonVars, verifyVars, attestVars, renderVars, rng, shellVars>>

PrepNext == Prepare

SpecPrep == PrepInit /\ [][PrepNext]_vars

\* C18: the numeric seed of an execution is the caller's numeric seed
\* reduced mod 2^32, and for a string seed the fold of its characters
\* from 0, on every route; so numeric seeds congruent mod 2^32 get the
\* same numeric seed.
C18_SeedReducedOrFolded ==
    prep.done =>
        /\ prep.seed.t = "num" => prep.numericSeed = ToUint32(prep.seed.kids)
        /\ prep.seed.t = "str" => prep.numericSeed = Fold(U32(0, 0), prep.seed.kids)

\* C19: every finite entry of vars is clamped into 0..100 (above 100 to
\* 100, below 0 to 0), the entries not given are 0, and VAR has ten entries.
C19_VarsClamped ==
    prep.done =>
        /\ Len(prep.VAR) = VarCount
        /\ \A i \in 1..VarCount :
              IF prep.vars.t = "arr" /\ i <= Len(prep.vars.kids)
              THEN Items(prep.vars)[i].t = "num" =>
                      prep.VAR[i] = JNum(IF Items(prep.vars)[i].n < 0 THEN 0
                                         ELSE IF Items(prep.vars)[i].n > 100 THEN 100
                                         ELSE Items(prep.vars)[i].n)
              ELSE prep.VAR[i] = JNum(0)


(***************************************************************************)
(* The error list of verifyBundle.                                         *)
(***************************************************************************)
\* The validation constraints a bundle violates, each named by its field.
\* The constraints on the fields of the snapshot are counted only when there
\* is a snapshot object to look into.
Violated(bdl) ==
    LET snapshot == Get(bdl, "snapshot")
    IN  {f \in {"bundleType", "version", "createdAt"} :
            Get(bdl, f).t # "str" \/ Get(bdl, f).s = ""}
        \cup (IF snapshot.t \notin {"obj", "arr"} THEN {"snapshot"}
              ELSE (IF Get(snapshot, "code").t # "str" \/ Get(snapshot, "code").s = ""
                    THEN {"snapshot.code"} ELSE {})
                   \cup (IF Get(snapshot, "seed").t \in {"undefined", "null"}
                         THEN {"snapshot.seed"} ELSE {})
                   \cup (IF Get(snapshot, "vars").t # "arr" THEN {"snapshot.vars"} ELSE {}))
        \cup {f \in {"certificateHash", "inputHash", "outputHash"} :
                 Get(bdl, f).t # "undefined" /\ ~isValidSha256(build, Get(bdl, f))}

\* C21: for an invalid bundle the errors list of verifyBundle has an entry
\* for every validation constraint the bundle violates (bundleType, version,
\* createdAt, snapshot, snapshot.code, snapshot.seed, snapshot.vars, and a
\* malformed certificateHash, inputHash or outputHash), not only the first.
C21_EveryViolationListed ==
    (vres # NoResult /\ Violated(callerBundle) # {})
    => /\ vres.kind = "invalid"
       /\ Violated(callerBundle) \subseteq {vres.errors[i] : i \in 1..Len(vres.errors)}


(***************************************************************************)
(* The proof ledger and the requests behind its rows.                      *)
(***************************************************************************)
\* The rows handed to insertCerProof so far: inserted, or still in flight.
ProofRows == {ledger[k] : k \in 1..Len(ledger)} \cup pendingProofs

\* C22: a ledger record comes only from an /api/attest request that passed
\* verification and carried no negotiation-probe header: a request answered
\* 400 and a probe request hand no row to insertCerProof.
C22_OnlyVerifiedNonProbeInserts ==
    \A row \in ProofRows :
        /\ row.attestationId \in 1..Len(reqs)
        /\ reqs[row.attestationId].status = 200
        /\ reqs[row.attestationId].verified
        /\ ~reqs[row.attestationId].header
        /\ row.certificateHash = reqs[row.attestationId].certificateHash

\* C22 witness: one request was attested and has its row in the ledger, a
\* probe request was answered 200 as well, and all inserts have settled.
C22_Witness ==
    /\ pendingProofs = {}
    /\ Len(ledger) = 1
    /\ \E i, j \in 1..Len(reqs) :
          /\ reqs[i].status = 200 /\ ~reqs[i].header /\ ledger[1].attestationId = i
          /\ reqs[j].status = 200 /\ reqs[j].header /\ reqs[j].verified


\* A request waits for the step from its bundle to its response: the
\* condition under which HandleBundle can be taken.
AtBody == \E i \in 1..Len(reqs) : reqs[i].pc = "body"

\* The handler steps and the settling of the inserts it started are all
\* taken once they can be: the event loop runs every continuation.  The
\* weak fairness of HandleBundle is written out with AtBody.
FairAttest ==
    /\ SpecAttest
    /\ WF_vars(GetAccountQuota)
    /\ ([]<>(~AtBody) \/ []<><<HandleBundle>>_vars)
    /\ WF_vars(AiLogged)
    /\ WF_vars(UsageInsertSettles)
    /\ WF_vars(ProofInsertSettles)
    /\ WF_vars(IngestSettles)

\* Request i was not a probe and got 200 from a server that keeps a ledger.
Attested(i) ==
    /\ HasLedger(build)
    /\ i <= Len(reqs)
    /\ reqs[i].status = 200
    /\ ~reqs[i].header

\* The ledger holds exactly one record keyed by the certificateHash of
\* request i, and it is the record of an attestation issued for that hash.
Recorded(i) ==
    i <= Len(reqs) /\
    LET h == reqs[i].certificateHash
        keyed == {k \in 1..Len(ledger) : ledger[k].certificateHash = h}
    IN  /\ Cardinality(keyed) = 1
        /\ \A k \in keyed :
              /\ ledger[k].status = "ATTESTED"
              /\ \E j \in 1..Len(reqs) :
                    /\ Attested(j)
                    /\ reqs[j].certificateHash = h
                    /\ ledger[k].attestationId = j
                    /\ ledger[k].bundleType = Get(Body(build, reqs[j].body), "bundleType").s

\* C23: after a non-probe /api/attest request has returned 200 for
\* certificateHash h, the ledger eventually contains exactly one record
\* keyed by h, with status ATTESTED and with the bundleType and
\* attestationId (and with them the nodeRuntimeHash and protocolVersion, which
\* are the same for every attestation of one process) of an attestation
\* that was issued for h.
C23_AttestedIsEventuallyRecorded ==
    \A i \in 1..MaxRequests : Attested(i) ~> Recorded(i)


(***************************************************************************)
(* The two metered routes of one server, POST /api/attest and POST         *)
(* /api/render, called by one account that has used part of its quota.     *)
(* The requests of both routes together are at most MaxRequests.           *)
(***************************************************************************)
ApiInit ==
    /\ build \in Builds
    /\ CanonIdle
    /\ VerifyIdle
    /\ RuntimeIdle
    /\ RenderIdle
    /\ reqs = <<>>
    /\ ledger = <<>>
    /\ pendingProofs = {}
    /\ pendingUsage = 0
    /\ ingest = [configured |-> TRUE, calls |-> {}]
    /\ usageEvents \in 0..MonthlyLimit

ApiReceive == ~Blocked /\ Len(reqs) + Len(responses) < MaxRequests /\ Receive

ApiRender == Len(reqs) + Len(responses) < MaxRequests /\ PostApiRender

ApiHandle == ~Blocked /\ (GetAccountQuota \/ HandleBundle \/ AiLogged)

ApiSettle == ~Blocked /\ (UsageInsertSettles \/ ProofInsertSettles \/ IngestSettles)

ApiNext == ApiReceive \/ ApiRender \/ ApiHandle \/ ApiSettle

SpecApi == ApiInit /\ [][ApiNext]_vars

\* The response this step sent on POST /api/render, if it sent one.
Answered == Len(responses') = Len(responses) + 1

C29_UsageWithinMonthlyLimit == usageEvents <= MonthlyLimit


(***************************************************************************)
(* Replication of an attested bundle.                                      *)
(***************************************************************************)
\* C25: ingestCerBundle never throws or rejects: with the configuration
\* missing it makes no network call, and after a network failure or a
\* reply that is not OK it resolves; and the response of the request that
\* started it is the 200 attestation of its bundle whether the replication
\* succeeded, failed, was skipped or is still under way.
C25_ReplicationNeverAffectsResponse ==
    /\ \A call \in ingest.calls :
          /\ call.state # "rejected"
          /\ ~ingest.configured => ~call.fetched
          /\ call.attestationId \in 1..Len(reqs)
    /\ \A i \in 1..Len(reqs) :
          (reqs[i].pc = "done" /\ reqs[i].body = "ai" /\ reqs[i].aiOk /\ reqs[i].status # 429)
          => /\ reqs[i].status = 200
             /\ reqs[i].verified
             /\ reqs[i].certificateHash = Get(Body(build, "ai"), "certificateHash").s

\* C25 witness: the endpoint is configured, one AI bundle was attested and
\* its replication has settled after a fetch, and another AI bundle was
\* attested with the same response and no replication at all.
C25_Witness ==
    /\ ingest.configured
    /\ \E i, j \in 1..Len(reqs) :
          /\ i # j
          /\ IngestCall(i, TRUE, "resolved") \in ingest.calls
          /\ \A call \in ingest.calls : call.attestationId # j
          /\ reqs[j].body = "ai" /\ ~reqs[j].header
          /\ reqs[i].status = 200 /\ reqs[j].status = 200
          /\ reqs[i].certificateHash = reqs[j].certificateHash


(***************************************************************************)
(* POST /verify in loop mode: the snapshot is rendered again and the       *)
(* hashes the caller expects are compared with the recomputed ones.        *)
(***************************************************************************)
\* A hash field of the request body: left out, or a string.
NotGiven == [given |-> FALSE, s |-> ""]

Given(str) == [given |-> TRUE, s |-> str]

\* A string is truthy unless it is empty; a missing field is undefined.
Provided(e) == e.given /\ e.s # ""

\* The loop render of the snapshot under verification.
VerifiedSnapshot == RenderRequest("/verify", Sketch, "loop", Num(2), Absent, Absent)

\* animationHash and posterHash of renderLoop's result.
LoopHashes(video, poster) ==
    [animationHash |-> HexDigest(video), posterHash |-> HexDigest(poster)]

\* What a caller may put into a hash field.
ExpectedValues ==
    LET st == renderLoop(VerifiedSnapshot.code, VerifiedSnapshot.totalFrames.n, 0)
        right == LoopHashes(Join(st.buffers), posterBuffer(st.buffers))
    IN  {NotGiven, Given(""), Given(right.animationHash), Given(right.posterHash),
         Given(HexDigest("other"))}

VerifyRequest(expectedHash, expectedAnimationHash, expectedPosterHash) ==
    [expectedHash |-> expectedHash, expectedAnimationHash |-> expectedAnimationHash,
     expectedPosterHash |-> expectedPosterHash]

\* null, true or false
Tri(checked, equal) == IF ~checked THEN "null" ELSE IF equal THEN "true" ELSE "false"

\* expectedHash && !expectedAnimationHash && !expectedPosterHash
LegacyOnly(body) ==
    /\ Provided(body.expectedHash)
    /\ ~Provided(body.expectedAnimationHash)
    /\ ~Provided(body.expectedPosterHash)

\* Lines 806-844: animationVerified, posterVerified, hashMatchType, verified.
LoopVerdict(body, computed) ==
    LET legacy == LegacyOnly(body)
        posterMatches == computed.posterHash = body.expectedHash.s
        animationMatches == computed.animationHash = body.expectedHash.s
        animationVerified ==
            IF legacy THEN Tri(TRUE, animationMatches)
            ELSE Tri(Provided(body.expectedAnimationHash),
                     computed.animationHash = body.expectedAnimationHash.s)
        posterVerified ==
            IF legacy THEN Tri(TRUE, posterMatches)
            ELSE Tri(Provided(body.expectedPosterHash),
                     computed.posterHash = body.expectedPosterHash.s)
        animOk == animationVerified \in {"null", "true"}
        posterOk == posterVerified \in {"null", "true"}
        atLeastOneChecked == animationVerified # "null" \/ posterVerified # "null"
    IN  [status |-> 200, error |-> "",
         verified |-> atLeastOneChecked /\ animOk /\ posterOk,
         animationVerified |-> animationVerified,
         posterVerified |-> posterVerified,
         hashMatchType |-> IF legacy /\ posterMatches THEN "poster"
                           ELSE IF legacy /\ animationMatches THEN "animation"
                           ELSE "",
         computedAnimationHash |-> computed.animationHash,
         computedPosterHash |-> computed.posterHash]

VerifyFailed(status, error) ==
    [status |-> status, error |-> error, verified |-> FALSE, animationVerified |-> "null",
     posterVerified |-> "null", hashMatchType |-> "", computedAnimationHash |-> "",
     computedPosterHash |-> ""]

LoopVerifyInit ==
    /\ build = "attest_js"
    /\ CanonIdle
    /\ VerifyIdle
    /\ AttestIdle
    /\ RngIdle
    /\ PrepIdle
    /\ ProcIdle
    /\ loopModule \in {"render_loop_js", "part_013"}
    /\ calls = <<>>
    /\ globalScope = 0
    /\ tmp = EmptyTmp
    /\ responses = <<>>
    /\ \E h \in ExpectedValues, a \in ExpectedValues, q \in ExpectedValues :
          loopVerify = [pc |-> "received", body |-> VerifyRequest(h, a, q)]

\* POST /verify with a loop-mode snapshot, from its arrival to its response.
PostVerify ==
    /\ loopVerify.pc = "received"
    /\ LET body == loopVerify.body
           req == VerifiedSnapshot
           totalFrames == OrDefault(req.totalFrames, DefaultTotalFrames)
           d == 1
           st == IF loopModule = "part_013"
                 THEN renderLoop013(req.code, totalFrames, globalScope)
                 ELSE renderLoop(req.code, totalFrames, globalScope)
           written == WriteFrames(mkdtempSync(tmp, TmpDir(d)), TmpDir(d), st.buffers)
           encoded == Join(InputPattern(written, TmpDir(d)))
       IN  IF ~Provided(body.expectedAnimationHash) /\ ~Provided(body.expectedPosterHash)
              /\ ~Provided(body.expectedHash)
           THEN /\ loopVerify' = [loopVerify EXCEPT !.pc = "responded"] @@
                                 [response |-> VerifyFailed(400, "INVALID_REQUEST")]
                /\ UNCHANGED <<globalScope, tmp>>
           ELSE /\ \E exit \in {"ok", "failed"} :
                      loopVerify' = [loopVerify EXCEPT !.pc = "responded"] @@
                         [response |->
                             IF exit = "failed" THEN VerifyFailed(500, "VERIFICATION_ERROR")
                             ELSE LoopVerdict(body, LoopHashes(encoded,
                                                              posterBuffer(st.buffers)))]
                /\ globalScope' = st.g
                /\ tmp' = RemoveScratch(written, TmpDir(d))
    /\ UNCHANGED <<build, canonVars, verifyVars, attestVars, rng, prep, loopModule, calls,
                   responses, proc>>

LoopVerifyNext == PostVerify

SpecLoopVerify == LoopVerifyInit /\ [][LoopVerifyNext]_vars

\* The hash a provided field is compared with matches it: the animation and
\* the poster hash for the fields of those names; for expectedHash, which
\* names neither, both of them.
Matches(body, computed) ==
    /\ Provided(body.expectedAnimationHash)
          => body.expectedAnimationHash.s = computed.animationHash
    /\ Provided(body.expectedPosterHash)
          => body.expectedPosterHash.s = computed.posterHash
    /\ Provided(body.expectedHash)
          => /\ body.expectedHash.s = computed.animationHash
             /\ body.expectedHash.s = computed.posterHash

\* C26: in loop-mode /verify, verified is true exactly when at least one
\* expected hash was provided and every provided one (expectedAnimationHash,
\* expectedPosterHash, expectedHash) equals the recomputed hash it stands
\* for; a provided hash that does not match makes verified false.
C26_VerifiedIffAllProvidedMatch ==
    (loopVerify.pc = "responded" /\ loopVerify.response.status = 200)
    => LET body == loopVerify.body
           computed == [animationHash |-> loopVerify.response.computedAnimationHash,
                        posterHash |-> loopVerify.response.computedPosterHash]
       IN  loopVerify.response.verified
           <=> /\ \/ Provided(body.expectedAnimationHash)
                  \/ Provided(body.expectedPosterHash)
                  \/ Provided(body.expectedHash)
               /\ Matches(body, computed)


(***************************************************************************)
(* The process: requestCounterMiddleware, the SIGTERM / SIGINT handlers    *)
(* and gracefulShutdown.  Time is counted in poll intervals from the       *)
(* first signal on.                                                        *)
(***************************************************************************)
DRAIN_TIMEOUT == 15000

POLL_INTERVAL == 100

MaxConns == 2

MaxAccepted == 2

MaxSignals == 1

Conns == 1..MaxConns

\* Requests that went through next() and whose connection still carries them.
InFlight(p) == {c \in Conns : p.conns[c] = "busy"}

Served(afterSignal, status, executed) ==
    [afterSignal |-> afterSignal, status |-> status, executed |-> executed]

ShutdownInit ==
    /\ build = "attest_js"
    /\ CanonIdle
    /\ VerifyIdle
    /\ AttestIdle
    /\ RenderIdle
    /\ RngIdle
    /\ PrepIdle
    /\ LoopVerifyIdle
    /\ \E closesIdle \in BOOLEAN :
          proc = [exited |-> FALSE, inFlightRequests |-> 0, isShuttingDown |-> FALSE,
                  listening |-> TRUE, closesIdle |-> closesIdle, intervals |-> {},
                  signals |-> 0, now |-> 0, accepted |-> 0, log |-> {},
                  conns |-> [c \in Conns |-> "closed"]]

ShutdownFrame ==
    UNCHANGED <<build, canonVars, verifyVars, attestVars, renderVars, rng, prep, loopVerify>>

\* A client connects while the server listens.
Connect ==
    /\ ~proc.exited /\ proc.listening
    /\ \E c \in Conns :
          /\ proc.conns[c] = "closed"
          /\ proc' = [proc EXCEPT !.conns[c] = "idle"]
    /\ ShutdownFrame

\* What one decrement for each response would be: cleanup behind a done flag.
cleanupOnce(count, events) == IF events = {} THEN count ELSE count - 1

\* res.on("finish", cleanup); res.on("close", cleanup): one decrement for
\* every one of the two events the response emits.
cleanup(count, events) == count - Cardinality(events)

\* A request arrives on an open connection and runs requestCounterMiddleware.
requestCounterMiddleware ==
    /\ ~proc.exited
    /\ \E c \in Conns :
          /\ proc.conns[c] = "idle"
          /\ IF proc.isShuttingDown
             THEN proc' = [proc EXCEPT
                              !.log = @ \cup {Served(TRUE, 503, FALSE)}]
             ELSE /\ proc.accepted < MaxAccepted
                  /\ proc' = [proc EXCEPT !.inFlightRequests = @ + 1,
                                          !.accepted = @ + 1,
                                          !.conns[c] = "busy"]
    /\ ShutdownFrame

\* The handler ends the response: 'finish', then 'close' on the next tick
\* of the event loop; the connection is kept alive or not.
Finish ==
    /\ ~proc.exited
    /\ \E c \in Conns, after \in {"idle", "closed"} :
          /\ proc.conns[c] = "busy"
          /\ proc' = [proc EXCEPT
                         !.inFlightRequests = cleanup(@, {"finish", "close"}),
                         !.log = @ \cup {Served(FALSE, 200, TRUE)},
                         !.conns[c] = after]
    /\ ShutdownFrame

\* The client goes away before the response is complete: 'close' alone.
Abort ==
    /\ ~proc.exited
    /\ \E c \in Conns :
          /\ proc.conns[c] = "busy"
          /\ proc' = [proc EXCEPT !.inFlightRequests = cleanup(@, {"close"}),
                                  !.conns[c] = "closed"]
    /\ ShutdownFrame

\* An idle connection ends (the client or the keep-alive timeout).
Disconnect ==
    /\ ~proc.exited
    /\ \E c \in Conns :
          /\ proc.conns[c] = "idle"
          /\ proc' = [proc EXCEPT !.conns[c] = "closed"]
    /\ ShutdownFrame

\* SIGTERM or SIGINT: gracefulShutdown up to the start of the interval.
Signal ==
    /\ ~proc.exited
    /\ proc.signals < MaxSignals
    /\ proc' = [proc EXCEPT
                   !.isShuttingDown = TRUE,
                   !.listening = FALSE,
                   !.signals = @ + 1,
                   !.intervals = @ \cup {0},
                   !.conns = [c \in Conns |->
                                 IF proc.closesIdle /\ proc.conns[c] = "idle"
                                 THEN "closed" ELSE proc.conns[c]]]
    /\ ShutdownFrame

\* The callback of server.close: every connection has ended.
Closed(p) == ~p.listening /\ \A c \in Conns : p.conns[c] = "closed"

CloseCallback ==
    /\ ~proc.exited
    /\ Closed(proc)
    /\ proc' = [proc EXCEPT !.exited = TRUE]
    /\ ShutdownFrame

\* Nothing is ready to run at once: time may pass.
Quiet(p) == ~Closed(p) /\ \A c \in Conns : p.conns[c] # "idle"

\* POLL_INTERVAL passes and every running waitForDrain interval fires.
Poll ==
    /\ ~proc.exited
    /\ proc.isShuttingDown
    /\ Quiet(proc)
    /\ proc.now <= DRAIN_TIMEOUT
    /\ LET fired == {e + POLL_INTERVAL : e \in proc.intervals}
           drained == proc.inFlightRequests = 0
       IN  proc' = [proc EXCEPT
                       !.now = @ + POLL_INTERVAL,
                       !.intervals = IF drained THEN {} ELSE fired,
                       !.exited = ~drained /\ \E e \in fired : e >= DRAIN_TIMEOUT]
    /\ ShutdownFrame

ShutdownNext ==
    \/ Connect
    \/ requestCounterMiddleware
    \/ Finish
    \/ Abort
    \/ Disconnect
    \/ Signal
    \/ CloseCallback
    \/ Poll

SpecShutdown == ShutdownInit /\ [][ShutdownNext]_vars

\* C27: after SIGTERM or SIGINT every later request is answered 503 without
\* being executed, and the process has exited once the in-flight requests
\* have drained and never runs later than the 15 s drain timeout.
C27_ShutdownRefusesAndExitsInTime ==
    /\ \A r \in proc.log : r.afterSignal => (r.status = 503 /\ ~r.executed)
    /\ (proc.isShuttingDown /\ ~proc.exited) => proc.now <= DRAIN_TIMEOUT

\* C28: inFlightRequests is never negative and equals the number of
\* accepted requests whose response has neither finished nor closed.
C28_InFlightCountsOpenResponses ==
    /\ proc.inFlightRequests >= 0
    /\ proc.inFlightRequests = Cardinality(InFlight(proc))


\* C30: the setup and draw bodies extracted from artist code are the
\* complete bodies of those functions, also when a body holds nested brace
\* blocks: a body that was extracted ends at the brace that pairs with the
\* function's opening brace, never at an inner one.
C30_ExtractedBodiesAreComplete ==
    \A i \in 1..Len(calls) :
        \A header \in {"setup{", "draw{"} :
            LET match == MatchFunction(calls[i].code, header)
            IN  match.matched => match.body = DeclaredBody(calls[i].code, header)

=============================================================================
